---- MODULE Spec2Model ----
(***************************************************************************)
(* Generalized Bulletproofs arithmetic-circuit proof                       *)
(* (crypto/generalized-bulletproofs/src/arithmetic_circuit_proof.rs):      *)
(* statement construction, witness construction, prove, verify into a      *)
(* caller-owned BatchVerifier, and finalization of the batch.              *)
(*                                                                         *)
(* Scalars are the elements of a prime field of FieldOrder elements.       *)
(* A group element is the tuple of its coordinates over the generators     *)
(* g, h, g_bold[0..N), h_bold[0..N), which are independent, so two points  *)
(* are equal exactly when their coordinate tuples are.                     *)
(* Indices are 0-based as in the source; At(v, i) reads a 0-based index.   *)
(***************************************************************************)
EXTENDS Integers, Sequences, FiniteSets, TLC

\* ------------------------------------------------------------------ bounds

\* The order of the scalar field C::F (a prime).
FieldOrder == 7
\* log2 of the number of g_bold / h_bold generators the caller holds.
MaxLog2N == 1
\* Seeds of the caller's random generator are 0..MaxSeed.
MaxSeed == 2
\* verify calls accumulated into one BatchVerifier before it is finalized.
MaxVerifies == 2

RECURSIVE Pow2(_)
Pow2(k) == IF k = 0 THEN 1 ELSE 2 * Pow2(k - 1)

\* Generators::g_bold.len(): the full generator count.
GenCount == Pow2(MaxLog2N)
\* The sizes Generators::reduce hands out.
Sizes == { Pow2(k) : k \in 0 .. MaxLog2N }

\* ------------------------------------------------------------ field C::F

FAdd(a, b) == (a + b) % FieldOrder
FSub(a, b) == (a + FieldOrder - b) % FieldOrder
FMul(a, b) == (a * b) % FieldOrder
FNeg(a) == (FieldOrder - a) % FieldOrder
\* Field::invert, of a non-zero element.
FInv(a) == CHOOSE b \in 0 .. (FieldOrder - 1) : (a * b) % FieldOrder = 1

At(v, i) == v[i + 1]

RECURSIVE FSum(_)
FSum(s) == IF s = << >> THEN 0 ELSE FAdd(Head(s), FSum(Tail(s)))

\* ----------------------------------------------------------- ScalarVector

SvNew(len) == [i \in 1 .. len |-> 0]
SvAdd(a, b) == [i \in 1 .. Len(a) |-> FAdd(a[i], b[i])]
SvSub(a, b) == [i \in 1 .. Len(a) |-> FSub(a[i], b[i])]
SvMul(a, b) == [i \in 1 .. Len(a) |-> FMul(a[i], b[i])]
SvScale(a, s) == [i \in 1 .. Len(a) |-> FMul(a[i], s)]
inner_product(a, b) == FSum([i \in 1 .. Len(a) |-> FMul(a[i], b[i])])
RECURSIVE FPow(_, _)
FPow(x, k) == IF k = 0 THEN 1 ELSE FMul(x, FPow(x, k - 1))
\* ScalarVector::powers: [x^0, x^1, .., x^(len-1)].
powers(x, len) == [i \in 1 .. len |-> FPow(x, i - 1)]
\* A plausible slip in lines 309-327: ONE pushed where ZERO is.
PadTo_one(v, len) == [i \in 1 .. (IF Len(v) > len THEN Len(v) ELSE len) |->
                        IF i <= Len(v) THEN v[i] ELSE 1]
\* Right-pad with zero to len (a vector already that long is unchanged).
PadTo(v, len) == [i \in 1 .. (IF Len(v) > len THEN Len(v) ELSE len) |->
                    IF i <= Len(v) THEN v[i] ELSE 0]

\* ------------------------------------------------------------ group C::G

PointLen == 2 + (2 * GenCount)
identity == [k \in 1 .. PointLen |-> 0]
Unit(j) == [k \in 1 .. PointLen |-> IF k = j THEN 1 ELSE 0]
PAdd(A, B) == [k \in 1 .. PointLen |-> FAdd(A[k], B[k])]
PSub(A, B) == [k \in 1 .. PointLen |-> FSub(A[k], B[k])]
PMul(A, s) == [k \in 1 .. PointLen |-> FMul(A[k], s)]
\* multiexp / multiexp_vartime over a list of (scalar, point) pairs.
RECURSIVE multiexp(_)
multiexp(pairs) ==
  IF pairs = << >> THEN identity
  ELSE PAdd(PMul(Head(pairs)[2], Head(pairs)[1]), multiexp(Tail(pairs)))

\* Generators: g, h, g_bold(i), h_bold(i).
gen_g == Unit(1)
gen_h == Unit(2)
g_bold(i) == Unit(3 + i)
h_bold(i) == Unit(3 + GenCount + i)

\* PedersenCommitment::commit: value * g + mask * h.
PedersenCommit(o) == PAdd(PMul(gen_g, o.value), PMul(gen_h, o.mask))
\* PedersenVectorCommitment::commit over the first Len generators of each axis.
PedersenVectorCommit(o) ==
  PAdd(PAdd(multiexp([i \in 1 .. Len(o.g_values) |-> <<o.g_values[i], g_bold(i - 1)>>]),
            multiexp([i \in 1 .. Len(o.h_values) |-> <<o.h_values[i], h_bold(i - 1)>>])),
       PMul(gen_h, o.mask))

\* ----------------------------------------------------------- ScalarMatrix

MaxOf(S) == IF S = {} THEN 0 ELSE CHOOSE y \in S : \A w \in S : w <= y
\* The columns a list of rows references; a row is a list of <<column, weight>>.
ColsOf(rows) == UNION { { rows[i][k][1] : k \in 1 .. Len(rows[i]) } : i \in 1 .. Len(rows) }
\* ScalarMatrix built by push: highest_index is the largest column of any row
\* (0 for a matrix without entries).
ScalarMatrix(rows) == [data |-> rows, highest_index |-> MaxOf(ColsOf(rows))]
\* ScalarMatrix::len: the number of rows.
MatLen(M) == Len(M.data)
\* The sum of weight * vec[column] over one row (every column within vec).
RowDot(row, vec) == FSum([k \in 1 .. Len(row) |-> FMul(row[k][2], At(vec, row[k][1]))])
\* A row that reads a column vec does not have: the index panics.
RowOutOfRange(row, len) == \E k \in 1 .. Len(row) : row[k][1] >= len
\* ScalarMatrix::mul_vec(len, z): entry j is the sum over rows i of
\* z[i] * weight(i, j).
mul_vec(M, len, z) ==
  [j \in 1 .. len |->
     FSum([i \in 1 .. Len(M.data) |->
             FMul(z[i], FSum([k \in 1 .. Len(M.data[i]) |->
                                IF M.data[i][k][1] = j - 1 THEN M.data[i][k][2] ELSE 0]))])]
\* mul_vec writes res[column]: a column >= len is out of range and panics.
mul_vec_panics(M, len) == \E i \in 1 .. Len(M.data) : RowOutOfRange(M.data[i], len)

\* ------------------------------------------------------------- Transcript

\* A transcript is the ordered list of the operations it received:
\* <<operation, label, bytes>>.
DomainSeparate(tr, label) == Append(tr, <<"domain_separate", label, << >> >>)
AppendMessage(tr, label, data) == Append(tr, <<"append_message", label, data>>)
Challenge(tr, label) == Append(tr, <<"challenge", label, << >> >>)
\* PointVector::transcript: one message per point under the given label.
RECURSIVE PointsTranscript(_, _, _)
PointsTranscript(tr, label, points) ==
  IF points = << >> THEN tr
  ELSE PointsTranscript(AppendMessage(tr, label, Head(points)), label, Tail(points))
\* u32::to_le_bytes.
LeBytes4(x) == <<x % 256, (x \div 256) % 256, (x \div 65536) % 256, (x \div 16777216) % 256>>

Labels == <<"arithmetic_circuit_proof", "generators", "n", "q", "vector_commitment",
            "commitment", "AI", "AO", "S", "y", "z", "Ti", "Tni+1+i", "x", "tau_x", "u",
            "t_caret", "ip_x", "init", "L", "R", "e">>
LabelCode(label) == CHOOSE k \in 1 .. Len(Labels) : Labels[k] = label
RECURSIVE DataCode(_)
DataCode(d) == IF d = << >> THEN 1 ELSE (Head(d) + 3 * DataCode(Tail(d))) % 997
RECURSIVE Digest(_)
Digest(tr) ==
  IF tr = << >> THEN 5
  ELSE LET e == tr[Len(tr)]
       IN (13 * Digest(SubSeq(tr, 1, Len(tr) - 1)) + 7 * LabelCode(e[2]) + DataCode(e[3])) % 997
\* C::hash_to_F of the challenge bytes: a deterministic function of every
\* operation the transcript has received, the challenge request included.
hash_to_F(tr) == Digest(tr) % FieldOrder

\* ------------------------------------------------------- caller's randomness

\* The k-th scalar (k = 0, 1, ..) a generator seeded with seed returns;
\* C::F::random may return zero.
Draw(seed, k) == (seed + (k * (seed + 2)) + ((k * k) \div 3)) % FieldOrder

\* --------------------------------------------- ArithmeticCircuitStatement

Ok(v) == [status |-> "Ok", err |-> "", val |-> v]
Err(e) == [status |-> "Err", err |-> e, val |-> << >>]

\* A plausible slip in the check of line 188: > in place of >=.
ConstrainsNonExistentTerm_gt(a) ==
  MaxOf({a.WL.highest_index, a.WR.highest_index, a.WO.highest_index}) > a.n
\* new, line 188: WL, WR or WO constrains a term past the n multiplications.
ConstrainsNonExistentTerm(a) ==
  MaxOf({a.WL.highest_index, a.WR.highest_index, a.WO.highest_index}) >= a.n

\* ArithmeticCircuitStatement::new. a: the arguments, with n = generators.len().
ACS_new(a) ==
  LET n == a.n
      m == Len(a.V)
      q == MatLen(a.WL)
  IN IF (MatLen(a.WR) # q) \/ (MatLen(a.WO) # q) \/ (MatLen(a.WV) # q) \/ (Len(a.c) # q)
       THEN Err("InconsistentAmountOfConstraints")
     ELSE IF \E k \in 1 .. Len(a.WCL) : MatLen(a.WCL[k]) # q
       THEN Err("InconsistentAmountOfConstraints")
     ELSE IF \E k \in 1 .. Len(a.WCR) : MatLen(a.WCR[k]) # q
       THEN Err("InconsistentAmountOfConstraints")
     ELSE IF ConstrainsNonExistentTerm(a)
       THEN Err("ConstrainedNonExistentTerm")
     ELSE IF Len(a.WCL) # Len(a.C)
       THEN Err("ConstrainedNonExistentCommitment")
     ELSE IF Len(a.WCR) # Len(a.C)
       THEN Err("ConstrainedNonExistentCommitment")
     ELSE IF \E k \in 1 .. Len(a.WCL) : a.WCL[k].highest_index > n
       THEN Err("ConstrainedNonExistentTerm")
     ELSE IF \E k \in 1 .. Len(a.WCR) : a.WCR[k].highest_index > n
       THEN Err("ConstrainedNonExistentTerm")
     ELSE IF a.WV.highest_index > m
       THEN Err("ConstrainedNonExistentCommitment")
     ELSE Ok(a)

\* Zeroize::zeroize of an ArithmeticCircuitStatement (lines 45-58): every
\* matrix loses its rows, the lists of matrices, c, C and V are emptied; the
\* generators are not touched.
zeroize(st) ==
  [st EXCEPT !.WL = ScalarMatrix(<< >>), !.WR = ScalarMatrix(<< >>),
             !.WO = ScalarMatrix(<< >>), !.WCL = << >>, !.WCR = << >>,
             !.WV = ScalarMatrix(<< >>), !.c = << >>, !.C = << >>, !.V = << >>]

\* A plausible slip in ArithmeticCircuitWitness::new: aO taken from aL.
ACW_new_copy(aL, aR, c, v) ==
  IF Len(aL) # Len(aR) THEN Err("DifferingLrLengths")
  ELSE Ok([aL |-> aL, aR |-> aR, aO |-> aL, c |-> c, v |-> v])
\* ArithmeticCircuitWitness::new.
ACW_new(aL, aR, c, v) ==
  IF Len(aL) # Len(aR) THEN Err("DifferingLrLengths")
  ELSE Ok([aL |-> aL, aR |-> aR, aO |-> SvMul(aL, aR), c |-> c, v |-> v])

\* Zeroize::zeroize on an ArithmeticCircuitWitness (derived, line 61): every
\* field is a vector and is emptied.
ACW_zeroize(w) == [aL |-> << >>, aR |-> << >>, aO |-> << >>, c |-> << >>, v |-> << >>]

\* initial_transcript: the transcript after it, whether it panicked on a zero
\* challenge, and the challenges.
initial_transcript(st, tr, AI, AO, S) ==
  LET n  == st.n
      q  == MatLen(st.WL)
      t1 == DomainSeparate(tr, "arithmetic_circuit_proof")
      t2 == AppendMessage(t1, "generators", <<GenCount>>)
      t3 == AppendMessage(t2, "n", LeBytes4(n))
      t4 == AppendMessage(t3, "q", LeBytes4(q))
      t5 == PointsTranscript(t4, "vector_commitment", st.C)
      t6 == PointsTranscript(t5, "commitment", st.V)
      t7 == AppendMessage(t6, "AI", AI)
      t8 == AppendMessage(t7, "AO", AO)
      t9 == AppendMessage(t8, "S", S)
      ty == Challenge(t9, "y")
      y  == hash_to_F(ty)
      tz == Challenge(ty, "z")
      z_1 == hash_to_F(tz)
  IN IF y = 0 THEN [panic |-> TRUE, tr |-> ty, y |-> 0, y_inv |-> << >>, z |-> << >>]
     ELSE IF z_1 = 0 THEN [panic |-> TRUE, tr |-> tz, y |-> y, y_inv |-> << >>, z |-> << >>]
     ELSE [panic |-> FALSE, tr |-> tz, y |-> y,
           y_inv |-> powers(FInv(y), n),
           z |-> [i \in 1 .. q |-> FPow(z_1, i)]]

\* transcript_Ts: the T points, then challenge x and its powers.
RECURSIVE AppendEach(_, _, _)
AppendEach(tr, label, points) ==
  IF points = << >> THEN tr
  ELSE AppendEach(AppendMessage(tr, label, Head(points)), label, Tail(points))
\* A plausible slip in transcript_Ts: the T points after n' sent first.
transcript_Ts_after_first(tr, T_before_ni, T_after_ni) ==
  LET t1 == AppendEach(tr, "Tni+1+i", T_after_ni)
      t2 == AppendEach(t1, "Ti", T_before_ni)
      tx == Challenge(t2, "x")
      x  == hash_to_F(tx)
  IN IF x = 0 THEN [panic |-> TRUE, tr |-> tx, x |-> << >>]
     ELSE [panic |-> FALSE, tr |-> tx,
           x |-> powers(x, Len(T_before_ni) + 1 + Len(T_after_ni))]
transcript_Ts(tr, T_before_ni, T_after_ni) ==
  LET t1 == AppendEach(tr, "Ti", T_before_ni)
      t2 == AppendEach(t1, "Tni+1+i", T_after_ni)
      tx == Challenge(t2, "x")
      x  == hash_to_F(tx)
  IN IF x = 0 THEN [panic |-> TRUE, tr |-> tx, x |-> << >>]
     ELSE [panic |-> FALSE, tr |-> tx,
           x |-> powers(x, Len(T_before_ni) + 1 + Len(T_after_ni))]

\* A plausible slip in transcript_tau_x_u_t_caret: the zero check left out.
transcript_tau_x_u_t_caret_unchecked(tr, tau_x, u, t_caret) ==
  LET t1 == AppendMessage(tr, "tau_x", <<tau_x>>)
      t2 == AppendMessage(t1, "u", <<u>>)
      t3 == AppendMessage(t2, "t_caret", <<t_caret>>)
      ti == Challenge(t3, "ip_x")
  IN [panic |-> FALSE, tr |-> ti, ip_x |-> hash_to_F(ti)]
\* transcript_tau_x_u_t_caret: three scalars, then challenge ip_x.
transcript_tau_x_u_t_caret(tr, tau_x, u, t_caret) ==
  LET t1 == AppendMessage(tr, "tau_x", <<tau_x>>)
      t2 == AppendMessage(t1, "u", <<u>>)
      t3 == AppendMessage(t2, "t_caret", <<t_caret>>)
      ti == Challenge(t3, "ip_x")
      ip_x == hash_to_F(ti)
  IN [panic |-> ip_x = 0, tr |-> ti, ip_x |-> ip_x]

\* ------------------------------------------- inner-product sub-argument

\* One round of the argument on the transcript: the round's L and R, then
\* the challenge the two halves are folded with.
transcript_L_R(tr, L, R) ==
  LET te == Challenge(AppendMessage(AppendMessage(tr, "L", L), "R", R), "e")
      e == hash_to_F(te)
  IN [panic |-> e = 0, tr |-> te, e |-> e]

\* The rounds of IpStatement::prove over the generators G and H and the
\* vectors a and b, u the weight of <a, b> on g: each round commits to the
\* cross terms of the halves in L and R, draws the round's challenge and
\* halves the generators and the vectors with it; the last a and b close
\* the proof.
RECURSIVE IpProveRounds(_, _, _, _, _, _, _)
IpProveRounds(tr, G, H, u, a, b, ip) ==
  IF Len(a) = 1
    THEN [status |-> "Ok", tr |-> tr, ip |-> [ip EXCEPT !.a = a[1], !.b = b[1]]]
  ELSE LET k == Len(a) \div 2
           L == multiexp([i \in 1 .. k |-> <<a[i], G[k + i]>>] \o
                         [i \in 1 .. k |-> <<b[k + i], H[i]>>] \o
                         << <<FMul(u, inner_product(SubSeq(a, 1, k), SubSeq(b, k + 1, 2 * k))),
                              gen_g>> >>)
           R == multiexp([i \in 1 .. k |-> <<a[k + i], G[i]>>] \o
                         [i \in 1 .. k |-> <<b[i], H[k + i]>>] \o
                         << <<FMul(u, inner_product(SubSeq(a, k + 1, 2 * k), SubSeq(b, 1, k))),
                              gen_g>> >>)
           te == transcript_L_R(tr, L, R)
           e == te.e
           e_inv == FInv(e)
       IN IF te.panic THEN [status |-> "Panic", tr |-> te.tr, ip |-> ip]
          ELSE IpProveRounds(
                 te.tr,
                 [i \in 1 .. k |-> PAdd(PMul(G[i], e_inv), PMul(G[k + i], e))],
                 [i \in 1 .. k |-> PAdd(PMul(H[i], e), PMul(H[k + i], e_inv))],
                 u,
                 [i \in 1 .. k |-> FAdd(FMul(a[i], e), FMul(a[k + i], e_inv))],
                 [i \in 1 .. k |-> FAdd(FMul(b[i], e_inv), FMul(b[k + i], e))],
                 [ip EXCEPT !.L = Append(@, L), !.R = Append(@, R)])

\* IpStatement::new_without_P_transcript(generators, y_inv, ip_x, ..).prove:
\* the closing argument for
\* P = <a, g_bold> + <b, y_inv * h_bold> + ip_x * <a, b> * g,
\* log2(n) rounds on the transcript the caller hands over.
IpProve(tr, n, y_inv, ip_x, a, b) ==
  IpProveRounds(tr, [i \in 1 .. n |-> g_bold(i - 1)],
                [i \in 1 .. n |-> PMul(h_bold(i - 1), y_inv[i])], ip_x, a, b,
                [L |-> << >>, R |-> << >>, a |-> 0, b |-> 0])

\* The challenges of the rounds, as the verifier re-derives them from the
\* proof's L and R.
RECURSIVE IpChallenges(_, _, _, _)
IpChallenges(tr, L, R, es) ==
  IF L = << >> THEN [panic |-> FALSE, tr |-> tr, es |-> es]
  ELSE LET te == transcript_L_R(tr, Head(L), Head(R))
       IN IF te.panic THEN [panic |-> TRUE, tr |-> te.tr, es |-> es]
          ELSE IpChallenges(te.tr, Tail(L), Tail(R), Append(es, te.e))

\* The weight generator i (0-based) of the g_bold axis has in the folded
\* generator, len generators being folded with the challenges es: each round
\* scales the low half by the inverse of its challenge and the high half by
\* the challenge. On the h_bold axis the weight is the inverse of this one.
RECURSIVE IpCoefficient(_, _, _)
IpCoefficient(es, i, len) ==
  IF es = << >> THEN 1
  ELSE IF i < len \div 2
    THEN FMul(FInv(Head(es)), IpCoefficient(Tail(es), i, len \div 2))
  ELSE FMul(Head(es), IpCoefficient(Tail(es), i - (len \div 2), len \div 2))

\* IpStatement::verify with P::VerifierWithoutTranscript { verifier_weight }:
\* rejects a proof that has not one L and one R per round of the statement's
\* size; else re-derives the challenges on the transcript it is handed and
\* queues, weighted, the folded P less the opening the proof claims:
\* e^2 * L and e^-2 * R per round, less a on the folded g_bold, b on the
\* folded y_inv * h_bold and ip_x * a * b on g.
IpVerify(verifier, tr, n, y_inv, ip_x, weight, ip) ==
  LET rounds == CHOOSE k \in 0 .. n : Pow2(k) = n
      ch == IpChallenges(tr, ip.L, ip.R, << >>)
      s == [i \in 1 .. n |-> IpCoefficient(ch.es, i - 1, n)]
  IN IF (Len(ip.L) # rounds) \/ (Len(ip.R) # rounds)
       THEN [status |-> "Err", tr |-> tr, verifier |-> verifier]
     ELSE IF ch.panic THEN [status |-> "Panic", tr |-> ch.tr, verifier |-> verifier]
     ELSE [status |-> "Ok", tr |-> ch.tr,
           verifier |->
             [verifier EXCEPT
                !.additional = @ \o
                   [j \in 1 .. (2 * rounds) |->
                      IF j % 2 = 1
                        THEN <<FMul(weight, FMul(ch.es[(j + 1) \div 2], ch.es[(j + 1) \div 2])),
                               ip.L[(j + 1) \div 2]>>
                        ELSE <<FMul(weight, FInv(FMul(ch.es[j \div 2], ch.es[j \div 2]))),
                               ip.R[j \div 2]>>],
                !.g_bold = [i \in 1 .. Len(@) |->
                              IF i <= n THEN FSub(@[i], FMul(weight, FMul(ip.a, s[i])))
                              ELSE @[i]],
                !.h_bold = [i \in 1 .. Len(@) |->
                              IF i <= n
                                THEN FSub(@[i], FMul(weight, FMul(ip.b, FMul(FInv(s[i]),
                                                                            y_inv[i]))))
                              ELSE @[i]],
                !.g = FSub(@, FMul(weight, FMul(ip_x, FMul(ip.a, ip.b))))]]

\* ------------------------------------------------------------------ prove

\* The indexes prove derives from the vector-commitment count c (lines 424-438).
prove_ni(c) == 2 * (c + 1)
prove_ilr(c) == prove_ni(c) \div 2
prove_io(c) == prove_ni(c)
prove_is(c) == prove_ni(c) + 1
\* A plausible slip in line 434: jlr one below the middle.
prove_jlr_low(c) == (prove_ni(c) \div 2) - 1
prove_jlr(c) == prove_ni(c) \div 2
\* A plausible slip in line 436: jo taken for 1.
prove_jo_one(c) == 1
prove_jo(c) == 0
prove_js(c) == prove_ni(c) + 1

\* prove, lines 305-328: the witness padded to n.
PadWitness(witness, n) ==
  [aL |-> PadTo(witness.aL, n), aR |-> PadTo(witness.aR, n), aO |-> PadTo(witness.aO, n),
   c |-> [k \in 1 .. Len(witness.c) |->
            [g_values |-> PadTo(witness.c[k].g_values, n),
             h_values |-> PadTo(witness.c[k].h_values, n),
             mask |-> witness.c[k].mask]],
   v |-> witness.v]

\* prove, lines 350-375, for row i (0-based): "Panic" when the row indexes past
\* the end of a witness vector, "Err" when its two sides differ, else "Ok".
RowOutcome(st, w, i) ==
  LET k == i + 1
      oob == \/ RowOutOfRange(st.WL.data[k], Len(w.aL))
             \/ RowOutOfRange(st.WR.data[k], Len(w.aR))
             \/ RowOutOfRange(st.WO.data[k], Len(w.aO))
             \/ \E cc \in 1 .. Len(st.WCL) :
                  RowOutOfRange(st.WCL[cc].data[k], Len(w.c[cc].g_values))
             \/ \E cc \in 1 .. Len(st.WCR) :
                  RowOutOfRange(st.WCR[cc].data[k], Len(w.c[cc].h_values))
             \/ RowOutOfRange(st.WV.data[k], Len(w.v))
      lhs == FSum(<<RowDot(st.WL.data[k], w.aL),
                    RowDot(st.WR.data[k], w.aR),
                    RowDot(st.WO.data[k], w.aO),
                    FSum([cc \in 1 .. Len(st.WCL) |->
                            RowDot(st.WCL[cc].data[k], w.c[cc].g_values)]),
                    FSum([cc \in 1 .. Len(st.WCR) |->
                            RowDot(st.WCR[cc].data[k], w.c[cc].h_values)])>>)
      rhs == FAdd(RowDot(st.WV.data[k], [j \in 1 .. Len(w.v) |-> w.v[j].value]),
                  st.c[k])
  IN IF oob THEN "Panic" ELSE IF lhs # rhs THEN "Err" ELSE "Ok"

\* The outcome of the loop over the rows: that of the first row not "Ok".
RowsOutcome(st, w) ==
  LET q == MatLen(st.WL)
      bad == { i \in 0 .. (q - 1) : RowOutcome(st, w, i) # "Ok" }
  IN IF bad = {} THEN "Ok"
     ELSE RowOutcome(st, w, CHOOSE i \in bad : \A j \in bad : i <= j)

\* prove, lines 443-482: the coefficients of l(X) and r(X), as functions over
\* 0 .. is, written in the order the source writes them.
RECURSIVE FillCommitments(_, _, _, _, _, _, _)
FillCommitments(lr, st, w, y, y_inv, z, i) ==
  IF i > Len(w.c) \/ i > Len(st.WCL) \/ i > Len(st.WCR) THEN lr
  ELSE LET n == st.n
           j == prove_ni(Len(st.C)) - i
           l1 == [lr.l EXCEPT ![i] = w.c[i].g_values]
           l2 == [l1 EXCEPT ![j] = SvMul(mul_vec(st.WCR[i], n, z), y_inv)]
           r1 == [lr.r EXCEPT ![j] = mul_vec(st.WCL[i], n, z)]
           r2 == [r1 EXCEPT ![i] = SvAdd(SvMul(w.c[i].h_values, y), r1[i])]
       IN FillCommitments([l |-> l2, r |-> r2], st, w, y, y_inv, z, i + 1)

LrPolynomials(st, w, y, y_inv, z, sL, sR) ==
  LET n == st.n
      c == Len(st.C)
      zero == [k \in 0 .. prove_is(c) |-> SvNew(n)]
      l0 == [zero EXCEPT ![prove_ilr(c)] = SvAdd(SvMul(mul_vec(st.WR, n, z), y_inv), w.aL),
                         ![prove_io(c)] = w.aO,
                         ![prove_is(c)] = sL]
      r0 == [zero EXCEPT ![prove_jlr(c)] = SvAdd(mul_vec(st.WL, n, z), SvMul(w.aR, y)),
                         ![prove_jo(c)] = SvSub(mul_vec(st.WO, n, z), y),
                         ![prove_js(c)] = SvMul(sR, y)]
  IN FillCommitments([l |-> l0, r |-> r0], st, w, y, y_inv, z, 1)

\* prove, lines 484-491: t = l * r, coefficient k at index k (0-based).
TPolynomial(l, r, len) ==
  [k \in 0 .. (2 * (len - 1)) |->
     FSum([e \in 1 .. len |->
             LET i == e - 1
                 j == k - i
             IN IF (j >= 0) /\ (j <= len - 1) THEN inner_product(l[i], r[j]) ELSE 0])]

\* poly_eval: the sum of coeff[i] * x[i].
poly_eval(poly, len, n, x) ==
  [e \in 1 .. n |-> FSum([k \in 1 .. len |-> FMul(poly[k - 1][e], x[k])])]

ProveOut(status, err, proof, tr, draws) ==
  [status |-> status, err |-> err, proof |-> proof, tr |-> tr, draws |-> draws]
NoProof == << >>

\* prove, lines 377-413: the blinding scalars and the commitments AI, AO, S.
ProveCommitments(n, seed, w) ==
  LET alpha == Draw(seed, 0)
      beta == Draw(seed, 1)
      rho == Draw(seed, 2)
      sL == [i \in 1 .. n |-> Draw(seed, 3 + (2 * (i - 1)))]
      sR == [i \in 1 .. n |-> Draw(seed, 3 + (2 * (i - 1)) + 1)]
  IN [alpha |-> alpha, beta |-> beta, rho |-> rho, sL |-> sL, sR |-> sR,
      AI |-> multiexp([i \in 1 .. n |-> <<w.aL[i], g_bold(i - 1)>>] \o
                      [i \in 1 .. n |-> <<w.aR[i], h_bold(i - 1)>>] \o
                      <<<<alpha, gen_h>>>>),
      AO |-> multiexp([i \in 1 .. n |-> <<w.aO[i], g_bold(i - 1)>>] \o
                      <<<<beta, gen_h>>>>),
      S |-> multiexp([i \in 1 .. n |-> <<sL[i], g_bold(i - 1)>>] \o
                     [i \in 1 .. n |-> <<sR[i], h_bold(i - 1)>>] \o
                     <<<<rho, gen_h>>>>),
      draws |-> 3 + (2 * n)]

\* A plausible slip in line 485: one coefficient of t too few.
prove_t_len_short(l_len) == 2 * (l_len - 1)
\* prove, line 485: the number of coefficients of t = l * r.
prove_t_len(l_len) == 1 + (2 * (l_len - 1))

\* prove, lines 484-514: t, its masks and the commitments to its coefficients
\* other than the one at ni. d0: the scalars drawn before.
ProveTs(seed, d0, ni, lr) ==
  LET len == (ni + 1) + 1
      t == TPolynomial(lr.l, lr.r, len)
      tlen == prove_t_len(len)
      nafter == tlen - (ni + 1)
      tau_before_ni == [i \in 1 .. ni |-> Draw(seed, d0 + (i - 1))]
      tau_after_ni == [i \in 1 .. nafter |-> Draw(seed, d0 + ni + (i - 1))]
  IN [t |-> t, tau_before_ni |-> tau_before_ni, tau_after_ni |-> tau_after_ni,
      T_before_ni |-> [i \in 1 .. ni |->
                         multiexp(<<<<t[i - 1], gen_g>>, <<tau_before_ni[i], gen_h>>>>)],
      T_after_ni |-> [i \in 1 .. nafter |->
                        multiexp(<<<<t[ni + i], gen_g>>, <<tau_after_ni[i], gen_h>>>>)],
      draws |-> d0 + ni + nafter]

\* prove, lines 518-559: l and r evaluated at x, t_caret, tau_x and u.
ProveEval(st, w, cm, z, lr, ts, x) ==
  LET n == st.n
      c == Len(st.C)
      m == Len(st.V)
      len == prove_is(c) + 1
      l == poly_eval(lr.l, len, n, x)
      r == poly_eval(lr.r, len, n, x)
      tau_x_poly == ts.tau_before_ni \o
                    <<inner_product(mul_vec(st.WV, m, z),
                                    [j \in 1 .. Len(w.v) |-> w.v[j].mask])>> \o
                    ts.tau_after_ni
  IN [l |-> l, r |-> r, t_caret |-> inner_product(l, r),
      tau_x |-> FSum([i \in 1 .. Len(tau_x_poly) |-> FMul(tau_x_poly[i], x[i])]),
      u |-> FSum(<<FMul(cm.alpha, At(x, prove_ilr(c))), FMul(cm.beta, At(x, prove_io(c))),
                   FMul(cm.rho, At(x, prove_is(c)))>> \o
                 [i \in 1 .. Len(w.c) |-> FMul(At(x, i), w.c[i].mask)])]

\* prove, lines 561-587: the closing challenge, the inner-product argument and
\* the proof.
ProveClose(st, y_inv, cm, ts, ev, tr, draws) ==
  LET ti == transcript_tau_x_u_t_caret(tr, ev.tau_x, ev.u, ev.t_caret)
      ip == IpProve(ti.tr, st.n, y_inv, ti.ip_x, ev.l, ev.r)
  IN IF ti.panic THEN ProveOut("Panic", "zero challenge", NoProof, ti.tr, draws)
     ELSE IF ip.status = "Panic"
       THEN ProveOut("Panic", "zero challenge", NoProof, ip.tr, draws)
     ELSE ProveOut("Ok", "",
                   [AI |-> cm.AI, AO |-> cm.AO, S |-> cm.S,
                    T_before_ni |-> ts.T_before_ni, T_after_ni |-> ts.T_after_ni,
                    tau_x |-> ev.tau_x, u |-> ev.u, t_caret |-> ev.t_caret,
                    ip |-> ip.ip],
                   ip.tr, draws)

\* Zeroize::zeroize on an ArithmeticCircuitProof (derived, line 103): the
\* points become the identity, the vectors are emptied, the scalars become 0.
ACP_zeroize(proof) ==
  [AI |-> identity, AO |-> identity, S |-> identity,
   T_before_ni |-> << >>, T_after_ni |-> << >>,
   tau_x |-> 0, u |-> 0, t_caret |-> 0,
   ip |-> [L |-> << >>, R |-> << >>, a |-> 0, b |-> 0]]

\* prove from the first challenge on (lines 415-587).
ProveFromYz(st, seed, w, cm, yz) ==
  LET lr == LrPolynomials(st, w, powers(yz.y, st.n), yz.y_inv, yz.z, cm.sL, cm.sR)
      ts == ProveTs(seed, cm.draws, prove_ni(Len(st.C)), lr)
      tx == transcript_Ts(yz.tr, ts.T_before_ni, ts.T_after_ni)
  IN IF tx.panic THEN ProveOut("Panic", "zero challenge", NoProof, tx.tr, ts.draws)
     ELSE IF mul_vec_panics(st.WV, Len(st.V))
       THEN ProveOut("Panic", "index", NoProof, tx.tr, ts.draws)
     ELSE ProveClose(st, yz.y_inv, cm, ts, ProveEval(st, w, cm, yz.z, lr, ts, tx.x), tx.tr,
                     ts.draws)

\* The part of prove after the witness checks (lines 377-587).
ProveCrypto(st, seed, tr, w) ==
  LET cm == ProveCommitments(st.n, seed, w)
      yz == initial_transcript(st, tr, cm.AI, cm.AO, cm.S)
  IN IF yz.panic THEN ProveOut("Panic", "zero challenge", NoProof, yz.tr, cm.draws)
     ELSE ProveFromYz(st, seed, w, cm, yz)

\* prove, lines 305-375: the checks of the witness against the statement.
\* "Ok", the error returned, or "Panic" when a row indexes out of range.
WitnessCheck(st, witness) ==
  LET n == st.n
      c == Len(st.C)
      m == Len(st.V)
      w == PadWitness(witness, n)
      rows == RowsOutcome(st, w)
  IN IF Len(witness.aL) > n THEN "IncorrectAmountOfGenerators"
     ELSE IF \E k \in 1 .. Len(witness.c) :
               (Len(witness.c[k].g_values) > n) \/ (Len(witness.c[k].h_values) > n)
       THEN "IncorrectAmountOfGenerators"
     ELSE IF (c # Len(w.c)) \/ (m # Len(w.v)) THEN "InconsistentWitness"
     ELSE IF \E k \in 1 .. m : st.V[k] # PedersenCommit(w.v[k]) THEN "InconsistentWitness"
     ELSE IF \E k \in 1 .. c : st.C[k] # PedersenVectorCommit(w.c[k])
       THEN "InconsistentWitness"
     ELSE IF rows = "Panic" THEN "Panic"
     ELSE IF rows = "Err" THEN "InconsistentWitness"
     ELSE "Ok"

\* A plausible slip in prove: the blinding scalars drawn and the transcript
\* domain-separated before the witness is checked.
prove_checks_last(st, seed, tr, witness) ==
  LET chk == WitnessCheck(st, witness)
  IN IF chk = "Ok" THEN ProveCrypto(st, seed, tr, PadWitness(witness, st.n))
     ELSE IF chk = "Panic" THEN ProveOut("Panic", "index", NoProof, tr, 0)
     ELSE ProveOut("Err", chk, NoProof,
                   DomainSeparate(tr, "arithmetic_circuit_proof"), 3)

\* ArithmeticCircuitStatement::prove(rng, transcript, witness): what it
\* returns, the transcript it leaves and the number of scalars it drew.
prove(st, seed, tr, witness) ==
  LET chk == WitnessCheck(st, witness)
  IN IF chk = "Ok" THEN ProveCrypto(st, seed, tr, PadWitness(witness, st.n))
     ELSE IF chk = "Panic" THEN ProveOut("Panic", "index", NoProof, tr, 0)
     ELSE ProveOut("Err", chk, NoProof, tr, 0)

\* ---------------------------------------------------------- BatchVerifier

\* Generators::batch_verifier: every accumulator zero, no additional term.
batch_verifier ==
  [g |-> 0, h |-> 0,
   g_bold |-> [i \in 1 .. GenCount |-> 0],
   h_bold |-> [i \in 1 .. GenCount |-> 0],
   h_sum |-> [k \in 1 .. (MaxLog2N + 1) |-> 0],
   additional |-> << >>]

\* The point the accumulator sums to; h_sum[k] weights the sum of the first
\* 2^(k-1) h_bold generators.
BatchSum(v) ==
  multiexp(<<<<v.g, gen_g>>, <<v.h, gen_h>>>> \o
           [i \in 1 .. GenCount |-> <<v.g_bold[i], g_bold(i - 1)>>] \o
           [i \in 1 .. GenCount |-> <<v.h_bold[i], h_bold(i - 1)>>] \o
           [k \in 1 .. (MaxLog2N + 1) |->
              <<v.h_sum[k], multiexp([i \in 1 .. Pow2(k - 1) |-> <<1, h_bold(i - 1)>>])>>] \o
           v.additional)
\* Generators::verify: the batch is valid when its sum is the identity.
generators_verify(v) == BatchSum(v) = identity

\* ----------------------------------------------------------------- verify

VerifyOut(status, err, verifier, tr, draws) ==
  [status |-> status, err |-> err, verifier |-> verifier, tr |-> tr, draws |-> draws]

\* The indexes verify derives from the vector-commitment count c (lines 601-606).
verify_ni(c) == 2 * (c + 1)
verify_ilr(c) == verify_ni(c) \div 2
\* A plausible slip in line 604: io one too high.
verify_io_high(c) == verify_ni(c) + 1
verify_io(c) == verify_ni(c)
\* A plausible slip in line 605: is taken for n'.
verify_is_low(c) == verify_ni(c)
verify_is(c) == verify_ni(c) + 1
\* A plausible slip in line 606: jlr one above the middle.
verify_jlr_next(c) == (verify_ni(c) \div 2) + 1
verify_jlr(c) == verify_ni(c) \div 2

\* A plausible slip in lines 654-657: log2_n incremented once more after the
\* comparison succeeded.
RECURSIVE Log2From_past(_, _)
Log2From_past(n, k) == IF Pow2(k) = n THEN k + 1 ELSE Log2From_past(n, k + 1)
\* verify, lines 654-657: the loop that finds log2(n).
RECURSIVE Log2From(_, _)
Log2From(n, k) == IF Pow2(k) = n THEN k ELSE Log2From(n, k + 1)

\* A plausible slip in line 643: T_after_ni paired from the power n' on.
VerifyIdentityTerms_from_ni(st, verifier, proof, z, delta, x, verifier_weight) ==
  LET m == Len(st.V)
      ni == verify_ni(Len(st.C))
      V_weights == SvScale(mul_vec(st.WV, m, z), At(x, ni))
  IN [verifier EXCEPT
        !.g = FSub(FAdd(@, FMul(proof.t_caret, verifier_weight)),
                   FMul(FMul(verifier_weight, At(x, ni)),
                        FAdd(delta, inner_product(z, st.c)))),
        !.h = FAdd(@, FMul(proof.tau_x, verifier_weight)),
        !.additional = @ \o
           [j \in 1 .. m |-> <<FMul(FNeg(verifier_weight), V_weights[j]), st.V[j]>>] \o
           [i \in 1 .. Len(proof.T_before_ni) |->
              <<FMul(FNeg(verifier_weight), At(x, i - 1)), proof.T_before_ni[i]>>] \o
           [i \in 1 .. Len(proof.T_after_ni) |->
              <<FMul(FNeg(verifier_weight), At(x, ni + (i - 1))), proof.T_after_ni[i]>>]]
\* verify, lines 625-645: the polynomial-identity terms, weighted by
\* verifier_weight.
VerifyIdentityTerms(st, verifier, proof, z, delta, x, verifier_weight) ==
  LET m == Len(st.V)
      ni == verify_ni(Len(st.C))
      V_weights == SvScale(mul_vec(st.WV, m, z), At(x, ni))
  IN [verifier EXCEPT
        !.g = FSub(FAdd(@, FMul(proof.t_caret, verifier_weight)),
                   FMul(FMul(verifier_weight, At(x, ni)),
                        FAdd(delta, inner_product(z, st.c)))),
        !.h = FAdd(@, FMul(proof.tau_x, verifier_weight)),
        !.additional = @ \o
           [j \in 1 .. m |-> <<FMul(FNeg(verifier_weight), V_weights[j]), st.V[j]>>] \o
           [i \in 1 .. Len(proof.T_before_ni) |->
              <<FMul(FNeg(verifier_weight), At(x, i - 1)), proof.T_before_ni[i]>>] \o
           [i \in 1 .. Len(proof.T_after_ni) |->
              <<FMul(FNeg(verifier_weight), At(x, ni + 1 + (i - 1))), proof.T_after_ni[i]>>]]

\* verify, lines 629-633: what the first block has done to the BatchVerifier
\* when WV.mul_vec (line 634) panics: g and h carry the weighted t_caret and
\* tau_x and the negated right-hand side, no term has been pushed yet.
VerifyIdentityScalars(st, verifier, proof, z, delta, x, verifier_weight) ==
  LET ni == verify_ni(Len(st.C))
  IN [verifier EXCEPT
        !.g = FSub(FAdd(@, FMul(proof.t_caret, verifier_weight)),
                   FMul(FMul(verifier_weight, At(x, ni)),
                        FAdd(delta, inner_product(z, st.c)))),
        !.h = FAdd(@, FMul(proof.tau_x, verifier_weight))]

\* The first vector commitment (1-based) whose WCL.mul_vec (line 682) or
\* WCR.mul_vec (line 683) panics.
FirstPanickingCommitment(st) ==
  CHOOSE i \in 1 .. Len(st.C) :
    /\ mul_vec_panics(st.WCL[i], st.n) \/ mul_vec_panics(st.WCR[i], st.n)
    /\ \A k \in 1 .. (i - 1) :
         ~(mul_vec_panics(st.WCL[k], st.n) \/ mul_vec_panics(st.WCR[k], st.n))

\* verify, lines 651-683: what the second block has done to the BatchVerifier
\* when the mul_vec of vector commitment k (1-based) panics: AI, AO, S and
\* the commitments up to the k-th are pushed, h_sum[log2_n] is lowered,
\* g_bold carries WR and the WCR of the commitments before the k-th; h_bold
\* and h are not yet written.
VerifyPTermsUntil(st, verifier, proof, y_inv, z, x, verifier_weight, k) ==
  LET n == st.n
      c == Len(st.C)
      ni == verify_ni(c)
      log2_n == Log2From(n, 0)
      wr == SvScale(SvMul(mul_vec(st.WR, n, z), y_inv), At(x, verify_jlr(c)))
      wcr == [i \in 1 .. (k - 1) |->
                SvScale(SvMul(mul_vec(st.WCR[i], n, z), y_inv), At(x, ni - i))]
  IN [verifier EXCEPT
        !.additional = @ \o
           <<<<FMul(verifier_weight, At(x, verify_ilr(c))), proof.AI>>,
             <<FMul(verifier_weight, At(x, verify_io(c))), proof.AO>>,
             <<FMul(verifier_weight, At(x, verify_is(c))), proof.S>>>> \o
           [i \in 1 .. k |-> <<FMul(verifier_weight, At(x, i)), st.C[i]>>],
        !.h_sum[log2_n + 1] = FSub(@, verifier_weight),
        !.g_bold = [e \in 1 .. Len(@) |->
                      IF e <= n
                        THEN FAdd(@[e], FMul(verifier_weight,
                                             FAdd(wr[e], FSum([i \in 1 .. (k - 1) |-> wcr[i][e]]))))
                        ELSE @[e]]]

\* verify, lines 649-696: the terms that rebuild P, weighted by verifier_weight.
VerifyPTerms(st, verifier, proof, y_inv, z, x, verifier_weight) ==
  LET n == st.n
      c == Len(st.C)
      ni == verify_ni(c)
      log2_n == Log2From(n, 0)
      wr == SvScale(SvMul(mul_vec(st.WR, n, z), y_inv), At(x, verify_jlr(c)))
      wcr == [i \in 1 .. c |->
                SvScale(SvMul(mul_vec(st.WCR[i], n, z), y_inv), At(x, ni - i))]
      h0 == SvAdd(SvAdd(SvNew(n), SvScale(mul_vec(st.WL, n, z), At(x, verify_jlr(c)))),
                  mul_vec(st.WO, n, z))
      hc == [e \in 1 .. n |->
               FAdd(h0[e], FSum([i \in 1 .. c |->
                                   FMul(mul_vec(st.WCL[i], n, z)[e], At(x, ni - i))]))]
      h_bold_scalars == SvMul(hc, y_inv)
  IN [verifier EXCEPT
        !.additional = @ \o
           <<<<FMul(verifier_weight, At(x, verify_ilr(c))), proof.AI>>,
             <<FMul(verifier_weight, At(x, verify_io(c))), proof.AO>>,
             <<FMul(verifier_weight, At(x, verify_is(c))), proof.S>>>> \o
           [i \in 1 .. c |-> <<FMul(verifier_weight, At(x, i)), st.C[i]>>],
        !.h_sum[log2_n + 1] = FSub(@, verifier_weight),
        !.g_bold = [e \in 1 .. Len(@) |->
                      IF e <= n
                        THEN FAdd(@[e], FMul(verifier_weight,
                                             FAdd(wr[e], FSum([i \in 1 .. c |-> wcr[i][e]]))))
                        ELSE @[e]],
        !.h_bold = [e \in 1 .. Len(@) |->
                      IF e <= n THEN FAdd(@[e], FMul(verifier_weight, h_bold_scalars[e]))
                      ELSE @[e]],
        !.h = FSub(@, FMul(verifier_weight, proof.u))]

\* A plausible slip in line 702: the amendment of P left unweighted.
VerifyClose_unweighted(st, w2, v2, y_inv, tr, proof) ==
  LET ti == transcript_tau_x_u_t_caret(tr, proof.tau_x, proof.u, proof.t_caret)
      v3 == [v2 EXCEPT !.g = FAdd(@, FMul(ti.ip_x, proof.t_caret))]
      ip == IpVerify(v3, ti.tr, st.n, y_inv, ti.ip_x, w2, proof.ip)
  IN IF ti.panic THEN VerifyOut("Panic", "zero challenge", v2, ti.tr, 2)
     ELSE IF ip.status = "Err" THEN VerifyOut("Err", "Ip", v3, ip.tr, 2)
     ELSE IF ip.status = "Panic" THEN VerifyOut("Panic", "zero challenge", v3, ip.tr, 2)
     ELSE VerifyOut("Ok", "", ip.verifier, ip.tr, 2)

\* verify, lines 698-713: the closing challenge, the term it amends P with and
\* the inner-product verification.
VerifyClose(st, w2, v2, y_inv, tr, proof) ==
  LET ti == transcript_tau_x_u_t_caret(tr, proof.tau_x, proof.u, proof.t_caret)
      v3 == [v2 EXCEPT !.g = FAdd(@, FMul(FMul(w2, ti.ip_x), proof.t_caret))]
      ip == IpVerify(v3, ti.tr, st.n, y_inv, ti.ip_x, w2, proof.ip)
  IN IF ti.panic THEN VerifyOut("Panic", "zero challenge", v2, ti.tr, 2)
     ELSE IF ip.status = "Err" THEN VerifyOut("Err", "Ip", v3, ip.tr, 2)
     ELSE IF ip.status = "Panic" THEN VerifyOut("Panic", "zero challenge", v3, ip.tr, 2)
     ELSE VerifyOut("Ok", "", ip.verifier, ip.tr, 2)

\* verify from challenge x on (lines 623-713).
VerifyFromX(st, seed, verifier, proof, yz, tx) ==
  LET n == st.n
      c == Len(st.C)
      delta == inner_product(SvMul(mul_vec(st.WR, n, yz.z), yz.y_inv),
                             mul_vec(st.WL, n, yz.z))
      v1 == VerifyIdentityTerms(st, verifier, proof, yz.z, delta, tx.x, Draw(seed, 0))
  IN IF mul_vec_panics(st.WV, Len(st.V))
       THEN VerifyOut("Panic", "index",
                      VerifyIdentityScalars(st, verifier, proof, yz.z, delta, tx.x,
                                            Draw(seed, 0)),
                      tx.tr, 1)
     ELSE IF \E i \in 1 .. c : mul_vec_panics(st.WCL[i], n) \/ mul_vec_panics(st.WCR[i], n)
       THEN VerifyOut("Panic", "index",
                      VerifyPTermsUntil(st, v1, proof, yz.y_inv, yz.z, tx.x, Draw(seed, 1),
                                        FirstPanickingCommitment(st)),
                      tx.tr, 2)
     ELSE VerifyClose(st, Draw(seed, 1),
                      VerifyPTerms(st, v1, proof, yz.y_inv, yz.z, tx.x, Draw(seed, 1)),
                      yz.y_inv, tx.tr, proof)

\* verify from the first challenge on (lines 618-713).
VerifyFromYz(st, seed, verifier, proof, yz) ==
  LET tx == transcript_Ts(yz.tr, proof.T_before_ni, proof.T_after_ni)
  IN IF tx.panic THEN VerifyOut("Panic", "zero challenge", verifier, tx.tr, 0)
     ELSE VerifyFromX(st, seed, verifier, proof, yz, tx)

\* A plausible slip in lines 611-616: the two length checks in the other order.
verify_after_first(st, seed, verifier, tr, proof) ==
  LET ni == verify_ni(Len(st.C))
      l_r_poly_len == 1 + ni + 1
      t_poly_len == (2 * l_r_poly_len) - 1
      yz == initial_transcript(st, tr, proof.AI, proof.AO, proof.S)
  IN IF Len(proof.T_after_ni) # (t_poly_len - ni - 1)
       THEN VerifyOut("Err", "IncorrectTAfterNiLength", verifier, tr, 0)
     ELSE IF Len(proof.T_before_ni) # ni
       THEN VerifyOut("Err", "IncorrectTBeforeNiLength", verifier, tr, 0)
     ELSE IF yz.panic THEN VerifyOut("Panic", "zero challenge", verifier, yz.tr, 0)
     ELSE VerifyFromYz(st, seed, verifier, proof, yz)

\* ArithmeticCircuitStatement::verify(rng, verifier, transcript, proof): what
\* it returns, the BatchVerifier and the transcript it leaves, and the number
\* of scalars it drew. A panic leaves the BatchVerifier with every write made
\* before the panicking line.
verify(st, seed, verifier, tr, proof) ==
  LET ni == verify_ni(Len(st.C))
      l_r_poly_len == 1 + ni + 1
      t_poly_len == (2 * l_r_poly_len) - 1
      yz == initial_transcript(st, tr, proof.AI, proof.AO, proof.S)
  IN IF Len(proof.T_before_ni) # ni
       THEN VerifyOut("Err", "IncorrectTBeforeNiLength", verifier, tr, 0)
     ELSE IF Len(proof.T_after_ni) # (t_poly_len - ni - 1)
       THEN VerifyOut("Err", "IncorrectTAfterNiLength", verifier, tr, 0)
     ELSE IF yz.panic THEN VerifyOut("Panic", "zero challenge", verifier, yz.tr, 0)
     ELSE VerifyFromYz(st, seed, verifier, proof, yz)

\* ------------------------------------------------- tree hash (fcmps/tree.rs)

\* Option<C::G>.
NoHash == [some |-> FALSE, val |-> << >>]
SomeHash(P) == [some |-> TRUE, val |-> P]

\* A plausible slip in hash_grow: the replaced child added, not subtracted.
hash_grow_added(existing_hash, offset, first_child_after_offset, new_children) ==
  IF new_children = << >> THEN NoHash
  ELSE IF \E i \in 0 .. (Len(new_children) - 1) : offset + i >= GenCount THEN NoHash
  ELSE SomeHash(PAdd(existing_hash,
         multiexp(<<<<FAdd(new_children[1], first_child_after_offset), g_bold(offset)>>>> \o
                  [i \in 1 .. (Len(new_children) - 1) |->
                     <<new_children[i + 1], g_bold(offset + i)>>])))
\* hash_grow: None without children or when g_bold_slice().get(..) is out of
\* range, else the hash with the children added at offset, the first of them
\* replacing first_child_after_offset.
hash_grow(existing_hash, offset, first_child_after_offset, new_children) ==
  IF new_children = << >> THEN NoHash
  ELSE IF \E i \in 0 .. (Len(new_children) - 1) : offset + i >= GenCount THEN NoHash
  ELSE SomeHash(PAdd(existing_hash,
         multiexp(<<<<FSub(new_children[1], first_child_after_offset), g_bold(offset)>>>> \o
                  [i \in 1 .. (Len(new_children) - 1) |->
                     <<new_children[i + 1], g_bold(offset + i)>>])))

\* hash_trim: None when g_bold_slice().get(..) is out of range, else the hash
\* with the children at offset removed.
hash_trim(existing_hash, offset, children) ==
  IF \E i \in 0 .. (Len(children) - 1) : offset + i >= GenCount THEN NoHash
  ELSE SomeHash(PSub(existing_hash,
         multiexp([i \in 1 .. Len(children) |-> <<children[i], g_bold(offset + (i - 1))>>])))

\* A caller's tree hash: the hash, the calls made on it, the last of them.
NewTree(P) == [hash |-> P, ops |-> 0, last |-> [op |-> "none"]]

\* ------------------- multisig TransactionMachine (transaction/multisig.rs)

\* Option<T>.
NoValue == [some |-> FALSE, val |-> << >>]
SomeValue(v) == [some |-> TRUE, val |-> v]

\* FrostError::InvalidSignTransition(expected, actual) and the other errors.
InvalidSignTransition(expected, actual) ==
  [kind |-> "InvalidSignTransition", expected |-> expected, actual |-> actual]
FrostError(kind) == [kind |-> kind, expected |-> "", actual |-> ""]
NoError == FrostError("")

\* What a call on a machine gives: how it ended ("Ok", "Err", "Panic"), the
\* error, the machine it leaves and the value returned.
CallOut(status, err, m, val) == [status |-> status, err |-> err, m |-> m, val |-> val]

\* frost's AlgorithmMachine over clsag::Multisig: its state, the input cell
\* it was constructed with and the Details it read from that cell in sign.
AlgorithmMachine_new(cell) == [state |-> "Fresh", cell |-> cell, seen |-> NoValue]
am_preprocess(am) ==
  IF am.state # "Fresh"
    THEN CallOut("Err", InvalidSignTransition("Fresh", am.state), am, << >>)
  ELSE CallOut("Ok", NoError, [am EXCEPT !.state = "Preprocessed"], << >>)
\* accepted: the commitments of the other signers are well-formed.
am_sign(am, heap, accepted) ==
  IF am.state # "Preprocessed"
    THEN CallOut("Err", InvalidSignTransition("Preprocessed", am.state), am, << >>)
  ELSE IF ~accepted THEN CallOut("Err", FrostError("InvalidCommitment"), am, << >>)
  ELSE CallOut("Ok", NoError, [am EXCEPT !.state = "Signed", !.seen = heap[am.cell]], << >>)
\* accepted: the shares of the other signers verify. Returns the pseudo-out
\* of the Details the machine signed for.
am_complete(am, accepted) ==
  IF am.state # "Signed"
    THEN CallOut("Err", InvalidSignTransition("Signed", am.state), am, << >>)
  ELSE IF ~accepted THEN CallOut("Err", FrostError("InvalidShare"), am, << >>)
  ELSE CallOut("Ok", NoError, [am EXCEPT !.state = "Complete"], am.seen.val)

\* multisig, line 53: inputs.resize(len, Rc::new(RefCell::new(None))) clones
\* the one Rc it is given, so every entry is a handle to the same cell.
InputCells(len) == [i \in 1 .. len |-> 1]

\* SignableTransaction::prepare_outputs under a generator seeded from the
\* transcript and the leader's entropy: the sum of the output masks.
prepare_outputs(transcript, entropy) == Draw(FAdd(transcript, entropy), 0)
\* SignableTransaction::prepare_transaction: a transaction with no input yet.
prepare_transaction(entropy) ==
  [bp |-> entropy, inputs |-> << >>, Clsags |-> << >>, pseudo_outs |-> << >>]

\* SignableTransaction::multisig (lines 42-132): the machine for a
\* transaction spending the inputs, with the decoys selected for each.
multisig(transcript, tx_inputs, decoys, leader) ==
  LET inputs == InputCells(Len(tx_inputs))
  IN [leader |-> leader,
      signable |-> [inputs |-> tx_inputs],
      transcript |-> transcript,
      decoys |-> decoys,
      output_masks |-> NoValue,
      inputs |-> inputs,
      heap |-> [a \in { inputs[i] : i \in 1 .. Len(inputs) } |-> NoValue],
      msg |-> NoValue,
      clsags |-> [i \in 1 .. Len(tx_inputs) |-> AlgorithmMachine_new(inputs[i])],
      tx |-> NoValue]

\* TransactionMachine::state (lines 300-302).
state(m) == m.clsags[1].state

\* The loop of lines 148-150 from machine i on: the machines after it, or the
\* first error.
RECURSIVE PreprocessAll(_, _)
PreprocessAll(clsags, i) ==
  IF i > Len(clsags) THEN [status |-> "Ok", err |-> NoError, clsags |-> clsags]
  ELSE LET r == am_preprocess(clsags[i])
       IN IF r.status # "Ok" THEN [status |-> r.status, err |-> r.err, clsags |-> clsags]
          ELSE PreprocessAll([clsags EXCEPT ![i] = r.m], i + 1)

\* TransactionMachine::preprocess (lines 138-170); entropy: the 32 bytes the
\* leader draws.
preprocess(m, entropy) ==
  IF state(m) # "Fresh"
    THEN CallOut("Err", InvalidSignTransition("Fresh", state(m)), m, << >>)
  ELSE LET all == PreprocessAll(m.clsags, 1)
           m1 == [m EXCEPT !.clsags = all.clsags]
       IN IF all.status # "Ok" THEN CallOut(all.status, all.err, m1, << >>)
          ELSE IF m.leader
            THEN CallOut("Ok", NoError,
                         [m1 EXCEPT
                            !.output_masks = SomeValue(prepare_outputs(m.transcript, entropy)),
                            !.tx = SomeValue(prepare_transaction(entropy))],
                         [entropy |-> entropy])
          ELSE CallOut("Ok", NoError, m1, << >>)

\* clsag::Details::new(clsag::Input::new(commitment, decoys), mask).
Details(commitment, decoys, mask) ==
  [commitment |-> commitment, decoys |-> decoys, mask |-> mask]

\* transcript.rng_seed(b"pseudo_out_masks", None): the seed of the generator
\* the masks are drawn from.
MaskSeed(transcript) == (transcript + 3) % FieldOrder

\* A plausible slip in line 232: the subtraction the other way round.
pseudo_out_mask_reversed(seed, c, len, output_masks, sum_pseudo_outs) ==
  IF c = len THEN FSub(sum_pseudo_outs, output_masks) ELSE Draw(seed, c - 1)
\* sign, lines 230-235, for input c (from 1) of len: the scalar drawn for it,
\* replaced for the last input by output_masks less the sum of the others.
pseudo_out_mask(seed, c, len, output_masks, sum_pseudo_outs) ==
  IF c = len THEN FSub(output_masks, sum_pseudo_outs) ELSE Draw(seed, c - 1)

\* sign, lines 216-256, from input c on: the cells, the transaction and the
\* masks so far; stops at the first input whose key image share does not
\* decompress (bad_image, 0 when every share read decompresses).
RECURSIVE SignInputs(_, _, _, _, _, _, _)
SignInputs(m, heap, tx, masks, sum_pseudo_outs, bad_image, c) ==
  LET len == Len(m.clsags)
  IN IF c > len
       THEN [status |-> "Ok", err |-> NoError, heap |-> heap, tx |-> tx, masks |-> masks]
     ELSE IF bad_image = c
       THEN [status |-> "Err", err |-> FrostError("InvalidCommitment"),
             heap |-> heap, tx |-> tx, masks |-> masks]
     ELSE IF (c = len) /\ ~m.output_masks.some
       THEN [status |-> "Panic", err |-> FrostError("unwrap"),
             heap |-> heap, tx |-> tx, masks |-> masks]
     ELSE LET mask == pseudo_out_mask(MaskSeed(m.transcript), c, len,
                                      m.output_masks.val, sum_pseudo_outs)
              sum == IF c = len THEN sum_pseudo_outs ELSE FAdd(sum_pseudo_outs, mask)
              filled == [heap EXCEPT ![m.inputs[c]] =
                           SomeValue(Details(m.signable.inputs[c], m.decoys[c], mask))]
              pushed == [tx EXCEPT !.inputs =
                           Append(@, [key_offsets |-> m.decoys[c], k_image |-> c])]
          IN SignInputs(m, filled, pushed, Append(masks, mask), sum, bad_image, c + 1)

\* The loop of lines 263-272 from machine i on; machine bad_clsag rejects the
\* commitments it is given.
RECURSIVE SignAll(_, _, _, _)
SignAll(clsags, heap, bad_clsag, i) ==
  IF i > Len(clsags) THEN [status |-> "Ok", err |-> NoError, clsags |-> clsags]
  ELSE LET r == am_sign(clsags[i], heap, bad_clsag # i)
       IN IF r.status # "Ok" THEN [status |-> r.status, err |-> r.err, clsags |-> clsags]
          ELSE SignAll([clsags EXCEPT ![i] = r.m], heap, bad_clsag, i + 1)

\* sign returned before the loop over the inputs: no mask was computed.
NoMasks == [masks |-> << >>]

\* sign, lines 221-226: the input whose key image share stops the loop. Only
\* the commitments that are Some are read, so with none present no share is
\* decompressed and none can fail.
BadImage(cm) == IF cm.present THEN cm.bad_image ELSE 0

\* sign, lines 214-274: the masks, the input cells, the message and the
\* CLSAG machines, for the machine m1 and the transaction tx of lines 186-212.
SignFromTx(m1, tx, cm) ==
  LET ins == SignInputs(m1, m1.heap, tx, << >>, 0, BadImage(cm), 1)
      m2 == [m1 EXCEPT !.heap = ins.heap]
      m3 == [m2 EXCEPT !.msg = SomeValue(ins.tx), !.tx = SomeValue(ins.tx)]
      all == SignAll(m3.clsags, m3.heap, cm.bad_clsag, 1)
      m4 == [m3 EXCEPT !.clsags = all.clsags]
  IN IF ins.status # "Ok" THEN CallOut(ins.status, ins.err, m2, [masks |-> ins.masks])
     ELSE CallOut(all.status, all.err, m4, [masks |-> ins.masks])

\* TransactionMachine::sign (lines 172-275). cm, the commitments of the other
\* signers: whether any is present, whether the leader's preparation carries
\* bulletproofs that verify, the entropy in it, the input (or 0) whose key
\* image share does not decompress, and the CLSAG machine (or 0) that rejects
\* its part.
sign(m, cm) ==
  IF state(m) # "Preprocessed"
    THEN CallOut("Err", InvalidSignTransition("Preprocessed", state(m)), m, NoMasks)
  ELSE IF m.leader
    THEN IF ~m.tx.some THEN CallOut("Panic", FrostError("unwrap"), m, NoMasks)
         ELSE SignFromTx([m EXCEPT !.tx = NoValue], m.tx.val, cm)
  ELSE IF ~cm.present THEN CallOut("Err", FrostError("InternalError"), m, NoMasks)
  ELSE LET m1 == [m EXCEPT
                    !.output_masks = SomeValue(prepare_outputs(m.transcript, cm.entropy))]
       IN IF cm.prep # "ok" THEN CallOut("Err", FrostError("InvalidShare"), m1, NoMasks)
          ELSE SignFromTx(m1, prepare_transaction(cm.entropy), cm)

\* The loop of lines 284-290 from machine i on; the shares for machine
\* bad_share do not verify.
RECURSIVE CompleteAll(_, _, _, _)
CompleteAll(clsags, tx, bad_share, i) ==
  IF i > Len(clsags) THEN [status |-> "Ok", err |-> NoError, clsags |-> clsags, tx |-> tx]
  ELSE LET r == am_complete(clsags[i], bad_share # i)
       IN IF r.status # "Ok"
            THEN [status |-> r.status, err |-> r.err, clsags |-> clsags, tx |-> tx]
          ELSE CompleteAll([clsags EXCEPT ![i] = r.m],
                           [tx EXCEPT !.Clsags = Append(@, i),
                                      !.pseudo_outs = Append(@, r.val)],
                           bad_share, i + 1)

\* A plausible slip in lines 278-280: the check of the state left out.
complete_unchecked(m, bad_share) ==
  IF ~m.tx.some THEN CallOut("Panic", FrostError("unwrap"), m, << >>)
  ELSE LET all == CompleteAll(m.clsags, m.tx.val, bad_share, 1)
           m1 == [m EXCEPT !.tx = NoValue, !.clsags = all.clsags]
       IN IF all.status # "Ok" THEN CallOut(all.status, all.err, m1, << >>)
          ELSE CallOut("Ok", NoError, m1, all.tx)
\* TransactionMachine::complete (lines 277-294).
complete(m, bad_share) ==
  IF state(m) # "Signed"
    THEN CallOut("Err", InvalidSignTransition("Signed", state(m)), m, << >>)
  ELSE IF ~m.tx.some THEN CallOut("Panic", FrostError("unwrap"), m, << >>)
  ELSE LET all == CompleteAll(m.clsags, m.tx.val, bad_share, 1)
           m1 == [m EXCEPT !.tx = NoValue, !.clsags = all.clsags]
       IN IF all.status # "Ok" THEN CallOut(all.status, all.err, m1, << >>)
          ELSE CallOut("Ok", NoError, m1, all.tx)

\* ------------------------------------------------------- the callers' inputs

\* Openings a caller holds.
VecOpenings ==
  { [g_values |-> <<2>>, h_values |-> <<3>>, mask |-> 1],
    [g_values |-> <<2>>, h_values |-> <<3>>, mask |-> 5],
    [g_values |-> <<4, 6>>, h_values |-> << >>, mask |-> 4] }
ScalarOpenings == { [value |-> 2, mask |-> 3], [value |-> 4, mask |-> 0] }
\* aL and aR as given to ArithmeticCircuitWitness::new: of equal or differing
\* length, shorter than, as long as, or longer than the generators.
LrPairs ==
  { << << >>, << >> >>, << <<2>>, <<3>> >>, << <<3>>, <<3>> >>, << <<1>>, << >> >>,
    << <<1, 4>>, <<5, 1>> >>,
    << [i \in 1 .. (GenCount + 1) |-> 1], [i \in 1 .. (GenCount + 1) |-> 2] >> }
VecOpeningLists == { << >> } \cup { <<o>> : o \in VecOpenings }
ScalarOpeningLists == { << >> } \cup { <<o>> : o \in ScalarOpenings }

\* The witnesses a statement is written for.
RefWitnesses ==
  { ACW_new(<<2>>, <<3>>, <<[g_values |-> <<2>>, h_values |-> <<3>>, mask |-> 1]>>,
            <<[value |-> 2, mask |-> 3]>>).val,
    ACW_new(<<1, 4>>, <<5, 1>>, <<[g_values |-> <<4, 6>>, h_values |-> << >>, mask |-> 4]>>,
            <<[value |-> 4, mask |-> 0]>>).val,
    ACW_new(<< >>, << >>, <<[g_values |-> <<2>>, h_values |-> <<3>>, mask |-> 5]>>,
            <<[value |-> 4, mask |-> 0]>>).val }

Shapes == {"A", "Gate", "Full"}
\* Ways a caller gets the constraint system wrong; new accepts the last three.
Defects == {"rowsWR", "rowsC", "rowsWCR", "colWO", "cntWCL", "cntWCR", "colWCL", "colWV",
            "colWCLn", "colWCRn", "colWVm"}

\* row with entry e appended when the defect d is among D.
WithEntry(row, D, d, e) == IF d \in D THEN Append(row, e) ELSE row
\* rows with an empty row appended when the defect d is among D.
WithRow(rows, D, d) == IF d \in D THEN Append(rows, << >>) ELSE rows

\* The arguments of ArithmeticCircuitStatement::new for a circuit of the given
\* shape over n generators that the witness ref satisfies, with the defects D.
\*   A:    no constraint, no commitment.
\*   Gate: aL[0] + 2 aR[n-1] + aO[0] = c[0].
\*   Full: one vector and one scalar commitment;
\*         g_values[0] = v[0].value + c[0],
\*         aL[0] + 3 aO[n-1] + h_values[n-1] = c[1].
StatementArgs(shape, n, ref, D) ==
  LET r == PadWitness(ref, n)
      o == r.c[1]
      sv == r.v[1]
      m == IF shape = "Full" THEN 1 ELSE 0
      gate == FSum(<<At(r.aL, 0), FMul(2, At(r.aR, n - 1)), At(r.aO, 0)>>)
      full0 == FSub(At(o.g_values, 0), sv.value)
      full1 == FSum(<<At(r.aL, 0), FMul(3, At(r.aO, n - 1)), At(o.h_values, n - 1)>>)
      WL == CASE shape = "A" -> << >>
              [] shape = "Gate" -> << <<<<0, 1>>>> >>
              [] shape = "Full" -> << << >>, <<<<0, 1>>>> >>
      WR == CASE shape = "A" -> << >>
              [] shape = "Gate" -> << <<<<n - 1, 2>>>> >>
              [] shape = "Full" -> << << >>, << >> >>
      WO == CASE shape = "A" -> << >>
              [] shape = "Gate" -> << WithEntry(<<<<0, 1>>>>, D, "colWO", <<n, 1>>) >>
              [] shape = "Full" ->
                   << << >>, WithEntry(<<<<n - 1, 3>>>>, D, "colWO", <<n, 1>>) >>
      WV == CASE shape = "A" -> << >>
              [] shape = "Gate" ->
                   << WithEntry(WithEntry(<< >>, D, "colWV", <<m + 1, 1>>),
                                D, "colWVm", <<m, 1>>) >>
              [] shape = "Full" ->
                   << WithEntry(WithEntry(<<<<0, 1>>>>, D, "colWV", <<m + 1, 1>>),
                                D, "colWVm", <<m, 1>>),
                      << >> >>
      WCL0 == << WithEntry(WithEntry(<<<<0, 1>>>>, D, "colWCL", <<n + 1, 1>>),
                           D, "colWCLn", <<n, 1>>),
                 << >> >>
      WCR0 == << << >>, WithEntry(<<<<n - 1, 1>>>>, D, "colWCRn", <<n, 1>>) >>
      q == Len(WL)
      empty == [i \in 1 .. q |-> << >>]
      WCL == (IF shape = "Full" THEN <<ScalarMatrix(WCL0)>> ELSE << >>) \o
             (IF "cntWCL" \in D THEN <<ScalarMatrix(empty)>> ELSE << >>)
      WCR == (IF shape = "Full" THEN <<ScalarMatrix(WithRow(WCR0, D, "rowsWCR"))>>
              ELSE << >>) \o
             (IF "cntWCR" \in D THEN <<ScalarMatrix(empty)>> ELSE << >>)
      cvec == CASE shape = "A" -> << >>
                [] shape = "Gate" -> <<gate>>
                [] shape = "Full" -> <<full0, full1>>
  IN [n |-> n,
      WL |-> ScalarMatrix(WL),
      WR |-> ScalarMatrix(WithRow(WR, D, "rowsWR")),
      WO |-> ScalarMatrix(WO),
      WCL |-> WCL,
      WCR |-> WCR,
      WV |-> ScalarMatrix(WV),
      c |-> IF "rowsC" \in D THEN Append(cvec, 1) ELSE cvec,
      C |-> IF shape = "Full" THEN <<PedersenVectorCommit(o)>> ELSE << >>,
      V |-> IF shape = "Full" THEN <<PedersenCommit(sv)>> ELSE << >>]

\* At most two defects at a time.
DefectSets == { D \in SUBSET Defects : Cardinality(D) <= 2 }

\* The proof a caller presents to verify: the one prove returned, or that
\* proof altered.
Variants == {"honest", "tau_x", "T_before", "T_after", "T_both", "ip"}
Present(proof, variant) ==
  CASE variant = "honest" -> proof
    [] variant = "tau_x" -> [proof EXCEPT !.tau_x = FAdd(@, 1)]
    [] variant = "T_before" ->
         [proof EXCEPT !.T_before_ni = SubSeq(@, 1, Len(@) - 1)]
    [] variant = "T_after" -> [proof EXCEPT !.T_after_ni = Append(@, identity)]
    [] variant = "T_both" ->
         [proof EXCEPT !.T_before_ni = Append(@, identity),
                       !.T_after_ni = IF @ = << >> THEN @ ELSE Tail(@)]
    [] variant = "ip" -> [proof EXCEPT !.ip.L = Append(@, identity)]

\* A fresh transcript, as the callers of prove and of verify each start with.
NewTranscript == <<<<"append_message", "init", << >> >>>>

\* -------------------------------------------------------------- the state

VARIABLES
  args,       \* what ArithmeticCircuitStatement::new was last given; an accepted
              \* statement owns them
  statement,  \* what it returned, as the caller holds it
  witness,    \* what ArithmeticCircuitWitness::new was given and returned, as
              \* the caller holds it until prove takes it
  proved,     \* what prove returned (proof), the statement and the seed it ran
              \* with, the transcript it left, and the proof as the caller
              \* holds it since (held)
  verifier,   \* the caller-owned BatchVerifier
  verified,   \* what the last verify returned, the statement and the proof it
              \* was given, its seed
  log,        \* the verify calls made on this BatchVerifier, each with the
              \* statement and the proof it was given
  finalized,  \* "None", or the result of Generators::verify
  tree,       \* a tree hash, the last hash_grow / hash_trim call on it, the calls made
  machine     \* a TransactionMachine, the calls made on it, the last of them

acVars == <<args, statement, witness, proved, verifier, verified, log, finalized>>
vars == <<acVars, tree, machine>>

None == [status |-> "None"]

\* A caller's TransactionMachine: the machine, the calls made on it, whether a
\* preprocess succeeded and whether a sign succeeded after one, and the last
\* call: what it was, how it ended, the machine it was made on and what it
\* returned.
NewMachine(m) ==
  [m |-> m, ops |-> 0, pre |-> FALSE, signed |-> FALSE,
   last |-> [op |-> "none", status |-> "", err |-> NoError, before |-> m, val |-> << >>]]
\* The machine of a transaction with len inputs: input c has the commitment
\* 2 * c and the ring <<c, c + 1>> was selected for it.
MachineFor(transcript, len, leader) ==
  multisig(transcript, [c \in 1 .. len |-> (2 * c) % FieldOrder],
           [c \in 1 .. len |-> <<c, c + 1>>], leader)

Init ==
  /\ args = None
  /\ statement = None
  /\ witness = None
  /\ proved = None
  /\ verifier = batch_verifier
  /\ verified = None
  /\ log = << >>
  /\ finalized = "None"
  /\ tree = NewTree(identity)
  /\ machine = NewMachine(MachineFor(0, 1, TRUE))

\* ArithmeticCircuitStatement::new(generators.reduce(n), WL, .., V).
New(a) ==
  /\ statement.status = "None"
  /\ args' = a
  /\ statement' = ACS_new(a)
  /\ UNCHANGED <<witness, proved, verifier, verified, log, finalized, tree, machine>>

\* statement.zeroize(), on the statement the caller holds. new takes its
\* arguments by value and the statement it returns is made of them (line
\* 215), so the matrices and vectors wiped are the ones new was given.
Zeroize ==
  /\ statement.status = "Ok"
  /\ statement' = [statement EXCEPT !.val = zeroize(@)]
  /\ args' = zeroize(args)
  /\ UNCHANGED <<witness, proved, verifier, verified, log, finalized, tree, machine>>

\* ArithmeticCircuitWitness::new(aL, aR, c, v).
NewWitness(aL, aR, c, v) ==
  /\ statement.status = "Ok"
  /\ witness.status = "None"
  /\ witness' = [args |-> [aL |-> aL, aR |-> aR, c |-> c, v |-> v]] @@
                ACW_new(aL, aR, c, v)
  /\ UNCHANGED <<args, statement, proved, verifier, verified, log, finalized, tree, machine>>

\* witness.zeroize(), on the witness the caller holds. new takes its
\* arguments by value and the witness it returns is made of them (line 98),
\* so the vectors wiped are the ones new was given. prove takes the witness
\* by value (line 299): the caller holds it up to that call.
ZeroizeWitness ==
  /\ witness.status = "Ok"
  /\ proved.status = "None"
  /\ witness' = [witness EXCEPT !.val = ACW_zeroize(@),
                                !.args = [aL |-> << >>, aR |-> << >>,
                                          c |-> << >>, v |-> << >>]]
  /\ UNCHANGED <<args, statement, proved, verifier, verified, log, finalized, tree, machine>>

\* statement.prove(rng, transcript, witness) with a generator seeded seed and
\* a fresh transcript.
Prove(seed) ==
  /\ statement.status = "Ok"
  /\ witness.status = "Ok"
  /\ proved.status = "None"
  /\ LET out == prove(statement.val, seed, NewTranscript, witness.val)
     IN proved' = [seed |-> seed, tr0 |-> NewTranscript, st |-> statement.val,
                   held |-> out.proof] @@ out
  /\ UNCHANGED <<args, statement, witness, verifier, verified, log, finalized, tree, machine>>

\* proof.zeroize(), on the proof prove returned, while a verify can still be
\* given it.
ZeroizeProof ==
  /\ proved.status = "Ok"
  /\ finalized = "None"
  /\ Len(log) < MaxVerifies
  /\ verified.status # "Panic"
  /\ proved' = [proved EXCEPT !.held = ACP_zeroize(@)]
  /\ UNCHANGED <<args, statement, witness, verifier, verified, log, finalized, tree, machine>>

\* statement.verify(rng, verifier, transcript, proof) with a generator seeded
\* seed, a fresh transcript and the presented proof: the proof the caller
\* holds or, while that is the proof prove returned, an alteration of it.
Verify(seed, variant) ==
  /\ proved.status = "Ok"
  /\ finalized = "None"
  /\ Len(log) < MaxVerifies
  /\ verified.status # "Panic"
  /\ (variant = "honest") \/ (proved.held = proved.proof)
  /\ LET proof == Present(proved.held, variant)
         out == verify(statement.val, seed, verifier, NewTranscript, proof)
     IN /\ verifier' = out.verifier
        /\ verified' = [status |-> out.status, err |-> out.err, tr |-> out.tr,
                        draws |-> out.draws, seed |-> seed, variant |-> variant,
                        proof |-> proof, tr0 |-> NewTranscript, before |-> verifier,
                        st |-> statement.val]
        /\ log' = Append(log, [variant |-> variant, status |-> out.status,
                               st |-> statement.val, proof |-> proof,
                               w1 |-> Draw(seed, 0), w2 |-> Draw(seed, 1)])
  /\ UNCHANGED <<args, statement, witness, proved, finalized, tree, machine>>

\* generators.verify(verifier): the one multiexp of the whole batch.
Finalize ==
  /\ finalized = "None"
  /\ verified.status \in {"Ok", "Err"}
  /\ finalized' = IF generators_verify(verifier) THEN "Valid" ELSE "Invalid"
  /\ UNCHANGED <<args, statement, witness, proved, verifier, verified, log, tree, machine>>

Next ==
  \/ \E shape \in Shapes, n \in Sizes, ref \in RefWitnesses, D \in DefectSets :
       New(StatementArgs(shape, n, ref, D))
  \/ Zeroize
  \/ \E lr \in LrPairs, c \in VecOpeningLists, v \in ScalarOpeningLists :
       NewWitness(lr[1], lr[2], c, v)
  \/ ZeroizeWitness
  \/ \E seed \in 0 .. MaxSeed : Prove(seed)
  \/ ZeroizeProof
  \/ \E seed \in 0 .. MaxSeed, variant \in Variants : Verify(seed, variant)
  \/ Finalize

Spec == Init /\ [][Next]_vars

\* The prover's side alone: a statement, a witness, one prove.
ProveNext ==
  \/ \E shape \in Shapes, n \in Sizes, ref \in RefWitnesses, D \in DefectSets :
       New(StatementArgs(shape, n, ref, D))
  \/ Zeroize
  \/ \E lr \in LrPairs, c \in VecOpeningLists, v \in ScalarOpeningLists :
       NewWitness(lr[1], lr[2], c, v)
  \/ ZeroizeWitness
  \/ \E seed \in 0 .. MaxSeed : Prove(seed)

ProveSpec == Init /\ [][ProveNext]_vars

\* ---------------------------------------------- the tree hash on its own

\* hash_grow / hash_trim calls made on one hash.
MaxTreeOps == 2
\* Children per call are at most MaxChildren.
MaxChildren == 3
\* The scalars of the children: 1 and 3.
TreeChildren == UNION { [1 .. k -> {1, 3}] : k \in 0 .. MaxChildren }
TreeOffsets == 0 .. GenCount
\* The child a caller says it replaces: none (zero) or one.
TreeOld == {0, 3}
\* The hash initialization point, or an existing hash.
TreeHashes == {identity, PAdd(gen_g, PMul(g_bold(0), 3))}

TreeInit ==
  /\ args = None
  /\ statement = None
  /\ witness = None
  /\ proved = None
  /\ verifier = batch_verifier
  /\ verified = None
  /\ log = << >>
  /\ finalized = "None"
  /\ tree \in { NewTree(P) : P \in TreeHashes }
  /\ machine = NewMachine(MachineFor(0, 1, TRUE))

\* What a call leaves: the returned hash replaces the caller's when it is Some.
TreeAfter(op, offset, old, children, out) ==
  [hash |-> IF out.some THEN out.val ELSE tree.hash,
   ops |-> tree.ops + 1,
   last |-> [op |-> op, offset |-> offset, old |-> old, children |-> children,
             before |-> tree.hash, out |-> out]]

\* hash = hash_grow(generators, hash, offset, old, children).
HashGrow(offset, old, children) ==
  /\ tree.ops < MaxTreeOps
  /\ tree' = TreeAfter("grow", offset, old, children,
                       hash_grow(tree.hash, offset, old, children))
  /\ UNCHANGED <<acVars, machine>>

\* hash = hash_trim(generators, hash, offset, children).
HashTrim(offset, children) ==
  /\ tree.ops < MaxTreeOps
  /\ tree' = TreeAfter("trim", offset, 0, children,
                       hash_trim(tree.hash, offset, children))
  /\ UNCHANGED <<acVars, machine>>

TreeNext ==
  \/ \E offset \in TreeOffsets, old \in TreeOld, children \in TreeChildren :
       HashGrow(offset, old, children)
  \/ \E offset \in TreeOffsets, children \in TreeChildren :
       HashTrim(offset, children)

TreeSpec == TreeInit /\ [][TreeNext]_vars

\* ------------------------------------ the TransactionMachine on its own

\* A transaction has 1..MaxInputs inputs.
MaxInputs == 3
\* Calls made on one machine are at most MaxCalls.
MaxCalls == 4
\* The entropy a leader draws.
Entropies == 0 .. 1
\* The commitments sign is given.
SignCommitments ==
  [present : BOOLEAN, prep : {"ok", "bad_bp"}, entropy : Entropies,
   bad_image : 0 .. MaxInputs, bad_clsag : 0 .. MaxInputs]

MachineInit ==
  /\ args = None
  /\ statement = None
  /\ witness = None
  /\ proved = None
  /\ verifier = batch_verifier
  /\ verified = None
  /\ log = << >>
  /\ finalized = "None"
  /\ tree = NewTree(identity)
  /\ machine \in { NewMachine(MachineFor(transcript, len, leader)) :
                     transcript \in 0 .. MaxSeed, len \in 1 .. MaxInputs,
                     leader \in BOOLEAN }

\* What a call leaves.
MachineAfter(op, out) ==
  [m |-> out.m,
   ops |-> machine.ops + 1,
   pre |-> machine.pre \/ (op = "preprocess" /\ out.status = "Ok"),
   signed |-> machine.signed \/ (op = "sign" /\ out.status = "Ok" /\ machine.pre),
   last |-> [op |-> op, status |-> out.status, err |-> out.err,
             before |-> machine.m, val |-> out.val]]
\* A call can be made: the calls are bounded and none has panicked.
MachineUsable == machine.ops < MaxCalls /\ machine.last.status # "Panic"

\* machine.preprocess(rng), the generator giving the leader entropy.
Preprocess(entropy) ==
  /\ MachineUsable
  /\ machine' = MachineAfter("preprocess", preprocess(machine.m, entropy))
  /\ UNCHANGED <<acVars, tree>>

\* machine.sign(commitments, msg).
Sign(cm) ==
  /\ MachineUsable
  /\ machine' = MachineAfter("sign", sign(machine.m, cm))
  /\ UNCHANGED <<acVars, tree>>

\* machine.complete(shares), the shares for CLSAG machine bad_share (or none,
\* 0) not verifying.
Complete(bad_share) ==
  /\ MachineUsable
  /\ machine' = MachineAfter("complete", complete(machine.m, bad_share))
  /\ UNCHANGED <<acVars, tree>>

MachineNext ==
  \/ \E entropy \in Entropies : Preprocess(entropy)
  \/ \E cm \in SignCommitments : Sign(cm)
  \/ \E bad_share \in 0 .. MaxInputs : Complete(bad_share)

MachineSpec == MachineInit /\ [][MachineNext]_vars

\* ------------------------------------------------ what the claims speak of

\* The weight of row i (from 1) of M at column j (from 0); 0 when absent.
Weight(M, i, j) ==
  FSum([k \in 1 .. Len(M.data[i]) |->
          IF M.data[i][k][1] = j THEN M.data[i][k][2] ELSE 0])
\* Entry j (from 0) of v right-padded with zero.
Padded(v, j) == IF j + 1 <= Len(v) THEN v[j + 1] ELSE 0
\* Every column M references is below len.
ColumnsBelow(M, len) == \A j \in ColsOf(M.data) : j < len
\* Every column of every weight matrix exists.
ColumnsExist(a) ==
  /\ ColumnsBelow(a.WL, a.n) /\ ColumnsBelow(a.WR, a.n) /\ ColumnsBelow(a.WO, a.n)
  /\ \A k \in 1 .. Len(a.WCL) : ColumnsBelow(a.WCL[k], a.n)
  /\ \A k \in 1 .. Len(a.WCR) : ColumnsBelow(a.WCR[k], a.n)
  /\ ColumnsBelow(a.WV, Len(a.V))
\* Every column row i references exists.
RowColumnsExist(st, i) ==
  /\ \A M \in {st.WL, st.WR, st.WO} : \A j \in ColsOf(<<M.data[i]>>) : j < st.n
  /\ \A k \in 1 .. Len(st.WCL) : \A j \in ColsOf(<<st.WCL[k].data[i]>>) : j < st.n
  /\ \A k \in 1 .. Len(st.WCR) : \A j \in ColsOf(<<st.WCR[k].data[i]>>) : j < st.n
  /\ \A j \in ColsOf(<<st.WV.data[i]>>) : j < Len(st.V)
\* Constraint row i (from 1):
\* WL_i*aL + WR_i*aR + WO_i*aO + sum_c(WCL_{c,i}*g_values_c + WCR_{c,i}*h_values_c)
\*   = WV_i*v + c[i], over the witness padded with zero, with aO = aL o aR.
RowLhs(st, wit, i) ==
  FSum([e \in 1 .. st.n |->
          LET j == e - 1
          IN FSum(<<FMul(Weight(st.WL, i, j), Padded(wit.aL, j)),
                    FMul(Weight(st.WR, i, j), Padded(wit.aR, j)),
                    FMul(Weight(st.WO, i, j), FMul(Padded(wit.aL, j), Padded(wit.aR, j)))>> \o
                  [k \in 1 .. Len(st.WCL) |->
                     FMul(Weight(st.WCL[k], i, j), Padded(wit.c[k].g_values, j))] \o
                  [k \in 1 .. Len(st.WCR) |->
                     FMul(Weight(st.WCR[k], i, j), Padded(wit.c[k].h_values, j))])])
RowRhs(st, wit, i) ==
  FAdd(FSum([e \in 1 .. Len(st.V) |-> FMul(Weight(st.WV, i, e - 1), wit.v[e].value)]),
       st.c[i])
\* No vector of the witness is longer than n.
VectorsFit(st, wit) ==
  /\ Len(wit.aL) <= st.n /\ Len(wit.aR) <= st.n
  /\ \A k \in 1 .. Len(wit.c) :
       Len(wit.c[k].g_values) <= st.n /\ Len(wit.c[k].h_values) <= st.n
CountsMatch(st, wit) == Len(wit.c) = Len(st.C) /\ Len(wit.v) = Len(st.V)
\* An opening that does not commit to the public commitment at its position.
SomeOpeningDiffers(st, wit) ==
  \/ \E k \in 1 .. Len(st.C) : k <= Len(wit.c) /\ st.C[k] # PedersenVectorCommit(wit.c[k])
  \/ \E k \in 1 .. Len(st.V) : k <= Len(wit.v) /\ st.V[k] # PedersenCommit(wit.v[k])
\* A row whose two sides are defined and differ.
SomeRowDiffers(st, wit) ==
  /\ CountsMatch(st, wit)
  /\ \E i \in 1 .. MatLen(st.WL) :
       RowColumnsExist(st, i) /\ RowLhs(st, wit, i) # RowRhs(st, wit, i)
\* The witness satisfies the statement.
WitnessSatisfies(st, wit) ==
  /\ VectorsFit(st, wit)
  /\ CountsMatch(st, wit)
  /\ ~SomeOpeningDiffers(st, wit)
  /\ \A i \in 1 .. MatLen(st.WL) :
       RowColumnsExist(st, i) /\ RowLhs(st, wit, i) = RowRhs(st, wit, i)

\* prove ran.
Proved == proved.status # "None"
\* verify ran; verified describes its last call.
Verified == verified.status # "None"
\* The last verify call was given the statement prove ran on and the proof
\* prove returned.
HonestCall ==
  verified.variant = "honest" /\ verified.st = proved.st /\ verified.proof = proved.proof
\* Every verify call on this BatchVerifier was given the statement prove ran
\* on and the proof prove returned, and returned Ok.
AllHonestOk ==
  \A i \in 1 .. Len(log) :
     /\ log[i].variant = "honest" /\ log[i].st = proved.st
     /\ log[i].proof = proved.proof /\ log[i].status = "Ok"
\* The operation stopped on a challenge that hashed to zero.
ZeroChallengePanic(out) ==
  /\ out.status = "Panic"
  /\ out.tr[Len(out.tr)][1] = "challenge"
  /\ hash_to_F(out.tr) = 0

\* ------------------------------------------------------------------- C1

\* C1 as stated: a witness satisfying an accepted statement always gets
\* Ok(proof) from prove; verify of that proof from the same transcript state
\* returns Ok; the batch then sums to the identity.
C1_CompletenessAsStated ==
  /\ (Proved /\ WitnessSatisfies(proved.st, witness.val)) => proved.status = "Ok"
  /\ (Verified /\ HonestCall) => verified.status = "Ok"
  /\ (finalized # "None" /\ AllHonestOk) => finalized = "Valid"

\* C1, amended: as stated, except that prove panics instead of returning
\* Ok(proof) when one of the challenges it derives hashes to zero; and prove
\* returns a proof for no other witness.
C1_Completeness ==
  /\ (Proved /\ WitnessSatisfies(proved.st, witness.val))
       => (proved.status = "Ok" \/ ZeroChallengePanic(proved))
  /\ (Proved /\ proved.status = "Ok") => WitnessSatisfies(proved.st, witness.val)
  /\ (Verified /\ HonestCall) => verified.status = "Ok"
  /\ (finalized # "None" /\ AllHonestOk) => finalized = "Valid"

\* A circuit with a vector and a scalar commitment over two generators was
\* proved, verified twice and the batch finalized as valid.
C1_Witness ==
  /\ finalized = "Valid" /\ AllHonestOk /\ Len(log) = 2
  /\ proved.st.n = 2 /\ Len(proved.st.C) = 1 /\ Len(proved.st.V) = 1
  /\ WitnessSatisfies(proved.st, witness.val)

\* ------------------------------------------------------------------- C2

\* The verify calls that were given the proof with tau_x altered.
TamperedAt == { i \in 1 .. Len(log) : log[i].variant = "tau_x" }
\* Every verify call returned Ok and was given the statement prove ran on and
\* the proof prove returned or that proof with tau_x altered.
OnlyTauXTampered ==
  \A i \in 1 .. Len(log) :
     /\ log[i].status = "Ok" /\ log[i].st = proved.st
     /\ log[i].variant \in {"honest", "tau_x"}
     /\ log[i].proof = Present(proved.proof, log[i].variant)

\* C2 as stated: a batch of valid proofs finalizes; with one of them replaced
\* by the proof with a different tau_x, finalization fails.
C2_BatchSoundnessAsStated ==
  (finalized # "None" /\ OnlyTauXTampered) =>
     /\ (TamperedAt = {}) => finalized = "Valid"
     /\ (Cardinality(TamperedAt) = 1) => finalized = "Invalid"

\* C2, amended: a batch of valid proofs finalizes; with one of them replaced
\* by the proof with a different tau_x, finalization fails unless the weight
\* verify drew for that proof's polynomial identity is zero.
C2_BatchSoundness ==
  (finalized # "None" /\ OnlyTauXTampered) =>
     /\ (TamperedAt = {}) => finalized = "Valid"
     /\ \A i \in TamperedAt :
          (TamperedAt = {i} /\ log[i].w1 # 0) => finalized = "Invalid"

\* A batch of one valid proof and one with tau_x altered, weighted by a
\* non-zero scalar, was finalized as invalid.
C2_Witness ==
  /\ finalized = "Invalid" /\ OnlyTauXTampered /\ Len(log) = 2
  /\ \E i \in TamperedAt : TamperedAt = {i} /\ log[i].w1 # 0

\* ------------------------------------------------------------------- C3

\* C3: a witness whose vectors fit, with a wrong count of openings, an
\* opening that does not commit to its public commitment, or a constraint row
\* that does not hold, gets Err(InconsistentWitness) from prove.
C3_WitnessRejection ==
  (/\ Proved
   /\ VectorsFit(proved.st, witness.val)
   /\ \/ ~CountsMatch(proved.st, witness.val)
      \/ SomeOpeningDiffers(proved.st, witness.val)
      \/ SomeRowDiffers(proved.st, witness.val))
  => (proved.status = "Err" /\ proved.err = "InconsistentWitness")

\* ------------------------------------------------------------------- C4

\* C4: every statement new accepts references existing columns only, and
\* neither prove nor verify indexes a wire or a commitment out of range.
C4_ShapeRejection ==
  /\ (statement.status = "Ok") => ColumnsExist(statement.val)
  /\ ~(Proved /\ proved.status = "Panic" /\ proved.err = "index")
  /\ ~(Verified /\ verified.status = "Panic" /\ verified.err = "index")

\* ------------------------------------------------------------------- C5

\* The five checks, in the order the claim gives them.
CheckA(a) ==
  LET q == MatLen(a.WL)
  IN /\ MatLen(a.WR) = q /\ MatLen(a.WO) = q /\ MatLen(a.WV) = q /\ Len(a.c) = q
     /\ \A k \in 1 .. Len(a.WCL) : MatLen(a.WCL[k]) = q
     /\ \A k \in 1 .. Len(a.WCR) : MatLen(a.WCR[k]) = q
CheckB(a) ==
  a.WL.highest_index < a.n /\ a.WR.highest_index < a.n /\ a.WO.highest_index < a.n
CheckC(a) == Len(a.WCL) = Len(a.C) /\ Len(a.WCR) = Len(a.C)
CheckD(a) ==
  /\ \A k \in 1 .. Len(a.WCL) : a.WCL[k].highest_index <= a.n
  /\ \A k \in 1 .. Len(a.WCR) : a.WCR[k].highest_index <= a.n
CheckE(a) == a.WV.highest_index <= Len(a.V)
FirstFailure(a) ==
  IF ~CheckA(a) THEN "InconsistentAmountOfConstraints"
  ELSE IF ~CheckB(a) THEN "ConstrainedNonExistentTerm"
  ELSE IF ~CheckC(a) THEN "ConstrainedNonExistentCommitment"
  ELSE IF ~CheckD(a) THEN "ConstrainedNonExistentTerm"
  ELSE IF ~CheckE(a) THEN "ConstrainedNonExistentCommitment"
  ELSE "Ok"

\* C5: new returns the error of the first of the five checks that fails, and
\* the statement made of its arguments exactly when all five hold. The step
\* looked at is the call of new: the one after which there is a statement or
\* an error where there was none.
C5_NewFirstFailure ==
  [][(statement.status = "None" /\ statement'.status # "None") =>
       IF FirstFailure(args') = "Ok"
         THEN statement'.status = "Ok" /\ statement'.val = args'
         ELSE statement'.status = "Err" /\ statement'.err = FirstFailure(args')]_vars

\* new was given arguments failing checks (b) and (e) and returned the error
\* of (b).
C5_Witness ==
  /\ statement.status = "Err" /\ statement.err = "ConstrainedNonExistentTerm"
  /\ CheckA(args) /\ ~CheckB(args) /\ CheckC(args) /\ CheckD(args) /\ ~CheckE(args)

\* ------------------------------------------------------------------- C6

\* C6: when verify returns an error, the BatchVerifier is as it was before
\* the call.
C6_NoPartialResults ==
  (Verified /\ verified.status = "Err") => verifier = verified.before

\* ------------------------------------------------------------------- C7

\* C7: when prove returns an error, it drew no scalar from the caller's
\* random generator and left the transcript as it was given.
C7_ErrorBeforeCryptography ==
  (Proved /\ proved.status = "Err") =>
     /\ proved.err \in {"IncorrectAmountOfGenerators", "InconsistentWitness"}
     /\ proved.draws = 0
     /\ proved.tr = proved.tr0

\* prove rejected a witness as inconsistent.
C7_Witness == Proved /\ proved.status = "Err" /\ proved.err = "InconsistentWitness"

\* ------------------------------------------------------------------- C8

\* verify left the transcript and the BatchVerifier untouched and drew nothing.
VerifyTouchedNothing ==
  verified.tr = verified.tr0 /\ verifier = verified.before /\ verified.draws = 0

\* C8: with n' = 2 * (vector commitments + 1), verify returns
\* IncorrectTBeforeNiLength when |T_before_ni| # n', otherwise
\* IncorrectTAfterNiLength when |T_after_ni| is not the number of
\* coefficients of t after n'; both before it touches transcript or batch.
C8_TLengthsFirst ==
  Verified =>
     LET ni == 2 * (Len(verified.st.C) + 1)
         coefficients == (2 * (ni + 2)) - 1
         p == verified.proof
     IN IF Len(p.T_before_ni) # ni
          THEN /\ verified.status = "Err" /\ verified.err = "IncorrectTBeforeNiLength"
               /\ VerifyTouchedNothing
        ELSE IF Len(p.T_after_ni) # coefficients - ni - 1
          THEN /\ verified.status = "Err" /\ verified.err = "IncorrectTAfterNiLength"
               /\ VerifyTouchedNothing
        ELSE verified.err \notin {"IncorrectTBeforeNiLength", "IncorrectTAfterNiLength"}

\* verify was given a proof with both T sequences of the wrong length and
\* reported the first.
C8_Witness ==
  /\ Verified /\ verified.variant = "T_both"
  /\ verified.err = "IncorrectTBeforeNiLength"

\* ------------------------------------------------------------------- C9

Messages(label, items) == [i \in 1 .. Len(items) |-> <<"append_message", label, items[i]>>]
\* The transcript walk the claim gives, from the transcript start, for
\* statement st and proof p.
Walk(start, st, p) ==
  start \o
  << <<"domain_separate", "arithmetic_circuit_proof", << >> >>,
     <<"append_message", "generators", <<GenCount>> >>,
     <<"append_message", "n", <<st.n, 0, 0, 0>> >>,
     <<"append_message", "q", <<MatLen(st.WL), 0, 0, 0>> >> >> \o
  Messages("vector_commitment", st.C) \o
  Messages("commitment", st.V) \o
  << <<"append_message", "AI", p.AI>>,
     <<"append_message", "AO", p.AO>>,
     <<"append_message", "S", p.S>>,
     <<"challenge", "y", << >> >>,
     <<"challenge", "z", << >> >> >> \o
  Messages("Ti", p.T_before_ni) \o
  Messages("Tni+1+i", p.T_after_ni) \o
  << <<"challenge", "x", << >> >>,
     <<"append_message", "tau_x", <<p.tau_x>> >>,
     <<"append_message", "u", <<p.u>> >>,
     <<"append_message", "t_caret", <<p.t_caret>> >>,
     <<"challenge", "ip_x", << >> >> >>

\* The operations of the inner-product sub-argument on the proof ip: round
\* by round its L, its R and the round's challenge.
IpWalk(ip) ==
  [j \in 1 .. (3 * Len(ip.L)) |->
     CASE j % 3 = 1 -> <<"append_message", "L", ip.L[(j + 2) \div 3]>>
       [] j % 3 = 2 -> <<"append_message", "R", ip.R[(j + 1) \div 3]>>
       [] j % 3 = 0 -> <<"challenge", "e", << >> >>]

\* C9: prove, and verify of a proof it accepts, each leave the transcript
\* having received exactly the claimed walk and only then the operations of
\* the inner-product sub-argument, so the verifier of the honest proof ends
\* with the prover's transcript.
C9_TranscriptWalk ==
  /\ (Proved /\ proved.status = "Ok")
       => proved.tr = Walk(proved.tr0, proved.st, proved.proof) \o IpWalk(proved.proof.ip)
  /\ (Verified /\ verified.status = "Ok")
       => verified.tr =
            Walk(verified.tr0, verified.st, verified.proof) \o IpWalk(verified.proof.ip)
  /\ (Verified /\ verified.status = "Ok" /\ HonestCall)
       => verified.tr = proved.tr

\* verify accepted the honest proof of a statement with a vector and a scalar
\* commitment.
C9_Witness ==
  /\ Verified /\ verified.status = "Ok" /\ HonestCall
  /\ Len(verified.st.C) = 1 /\ Len(verified.st.V) = 1

\* ------------------------------------------------------------------ C10

\* C10 as stated: T_before_ni has n' points and T_after_ni has
\* 2 * (n' + 1) - 1 - n' - 1.
C10_ProofShapeAsStated ==
  (Proved /\ proved.status = "Ok") =>
     LET ni == 2 * (Len(proved.st.C) + 1)
     IN /\ Len(proved.proof.T_before_ni) = ni
        /\ Len(proved.proof.T_after_ni) = (2 * (ni + 1)) - 1 - ni - 1

\* C10, amended: T_before_ni has n' points and T_after_ni has
\* 2 * (n' + 2) - 1 - n' - 1 = n' + 2, which with the coefficient at n' are
\* the 2 * (n' + 1) + 1 coefficients of t, a polynomial of degree 2 * (n' + 1).
C10_ProofShape ==
  (Proved /\ proved.status = "Ok") =>
     LET ni == 2 * (Len(proved.st.C) + 1)
     IN /\ Len(proved.proof.T_before_ni) = ni
        /\ Len(proved.proof.T_after_ni) = (2 * (ni + 2)) - 1 - ni - 1
        /\ Len(proved.proof.T_before_ni) + 1 + Len(proved.proof.T_after_ni)
             = (2 * (ni + 1)) + 1

\* prove returned a proof for a statement with a vector commitment.
C10_Witness == Proved /\ proved.status = "Ok" /\ Len(proved.st.C) = 1

\* ------------------------------------------------------------------ C11

\* C11: after any sequence of verify calls that were each given the valid
\* proof and returned Ok, whatever weights they drew, the BatchVerifier sums
\* to the identity, so finalization succeeds.
C11_IdempotentBatching ==
  AllHonestOk =>
     /\ BatchSum(verifier) = identity
     /\ (finalized # "None") => finalized = "Valid"

\* The same proof was verified twice into one BatchVerifier, with different
\* weights, and the batch was then finalized as valid.
C11_Witness ==
  /\ Len(log) = 2 /\ AllHonestOk
  /\ log[1].w1 # log[2].w1 /\ log[1].w2 # log[2].w2
  /\ log[1].w1 # 0 /\ log[2].w1 # 0 /\ log[1].w2 # 0 /\ log[2].w2 # 0
  /\ verified.proof = proved.proof
  /\ finalized = "Valid"

\* ------------------------------------------------------------------ C12

\* Operation k of transcript tr is a challenge that hashes to zero.
ZeroChallengeAt(tr, k) ==
  tr[k][1] = "challenge" /\ hash_to_F(SubSeq(tr, 1, k)) = 0
\* The operations an operation added to the transcript it was given.
Added(out) == (Len(out.tr0) + 1) .. Len(out.tr)
\* The operation requested no challenge twice: two requests under one label
\* are two rounds of the inner-product sub-argument, the later one made after
\* the transcript received that round's L and R.
NoChallengeRepeated(out) ==
  \A i, j \in Added(out) :
     (/\ i < j /\ out.tr[i][1] = "challenge" /\ out.tr[j][1] = "challenge"
      /\ out.tr[i][2] = out.tr[j][2])
        => /\ out.tr[i][2] = "e" /\ j >= i + 3
           /\ out.tr[j - 2][1] = "append_message" /\ out.tr[j - 2][2] = "L"
           /\ out.tr[j - 1][1] = "append_message" /\ out.tr[j - 1][2] = "R"
\* The operation stopped at its first zero challenge: it panicked, and that
\* challenge is the last thing the transcript received.
AbortedAtZeroChallenge(out) ==
  /\ out.status = "Panic"
  /\ ZeroChallengeAt(out.tr, Len(out.tr))
  /\ \A k \in Added(out) : ZeroChallengeAt(out.tr, k) => k = Len(out.tr)

\* C12: when a challenge prove or verify derives is zero, the operation
\* panics at that challenge: it returns neither Ok nor an AcError, requests
\* no challenge again, and prove emits no proof.
C12_ZeroChallengeAborts ==
  /\ Proved => NoChallengeRepeated(proved)
  /\ Verified => NoChallengeRepeated(verified)
  /\ (Proved /\ \E k \in Added(proved) : ZeroChallengeAt(proved.tr, k))
       => (AbortedAtZeroChallenge(proved) /\ proved.proof = NoProof)
  /\ (Verified /\ \E k \in Added(verified) : ZeroChallengeAt(verified.tr, k))
       => AbortedAtZeroChallenge(verified)

\* verify derived a zero challenge from a proof and panicked.
C12_Witness ==
  /\ Verified /\ verified.status = "Panic" /\ verified.err = "zero challenge"
  /\ ZeroChallengeAt(verified.tr, Len(verified.tr))

\* ------------------------------------------------------------------ C13

\* C13: ArithmeticCircuitWitness::new returns Err(DifferingLrLengths) exactly
\* when |aL| # |aR|; otherwise a witness that stores aL, aR, c and v as given
\* and an aO of the length of aL with aO[i] = aL[i] * aR[i] at every i.
C13_WitnessNew ==
  (witness.status # "None") =>
     LET a == witness.args
     IN IF Len(a.aL) # Len(a.aR)
          THEN witness.status = "Err" /\ witness.err = "DifferingLrLengths"
          ELSE /\ witness.status = "Ok"
               /\ witness.val.aL = a.aL /\ witness.val.aR = a.aR
               /\ witness.val.c = a.c /\ witness.val.v = a.v
               /\ Len(witness.val.aO) = Len(a.aL)
               /\ \A i \in 1 .. Len(a.aL) :
                    witness.val.aO[i] = (a.aL[i] * a.aR[i]) % FieldOrder

\* new was given two multiplications and openings, and returned their witness.
C13_Witness ==
  /\ witness.status = "Ok"
  /\ Len(witness.args.aL) = 2 /\ Len(witness.val.aO) = 2
  /\ witness.val.aO[1] # witness.val.aO[2]
  /\ Len(witness.args.c) = 1 /\ Len(witness.args.v) = 1

\* ------------------------------------------------------------------ C14

\* The g_bold generators offset .. offset + |children| - 1 exist.
ChildrenFit(offset, children) ==
  children # << >> /\ offset + Len(children) <= GenCount
\* h - old * G[offset] + sum_i children[i] * G[offset + i], coordinate by
\* coordinate.
Regrown(h, offset, old, children) ==
  [k \in 1 .. PointLen |->
     LET i == k - 3 - offset
     IN IF (i >= 0) /\ (i < Len(children)) /\ (k <= 2 + GenCount)
          THEN (h[k] + children[i + 1] + (IF i = 0 THEN FieldOrder - old ELSE 0)) % FieldOrder
          ELSE h[k]]

\* C14: for the hash a caller holds, every offset and non-empty children that
\* fit the g_bold generators: hash_grow with no replaced child returns Some(h')
\* and hash_trim(h', offset, children) returns the hash; and hash_grow
\* replacing old returns hash - old*G[offset] + sum_i children[i]*G[offset+i].
C14_TrimUndoesGrow ==
  /\ \A offset \in TreeOffsets, children \in TreeChildren :
       ChildrenFit(offset, children) =>
          LET grown == hash_grow(tree.hash, offset, 0, children)
          IN /\ grown.some
             /\ hash_trim(grown.val, offset, children) = SomeHash(tree.hash)
             /\ \A old \in TreeOld :
                  hash_grow(tree.hash, offset, old, children)
                    = SomeHash(Regrown(tree.hash, offset, old, children))
  /\ (tree.last.op = "grow" /\ ChildrenFit(tree.last.offset, tree.last.children))
       => /\ tree.last.out.some
          /\ tree.hash = Regrown(tree.last.before, tree.last.offset, tree.last.old,
                                 tree.last.children)
          /\ hash_trim(tree.hash, tree.last.offset,
                       [tree.last.children EXCEPT ![1] = FSub(@, tree.last.old)])
               = SomeHash(tree.last.before)

\* A hash was grown by two children at offset 0 and trimmed of them again,
\* which gave back the hash it was.
C14_Witness ==
  /\ tree.ops = 2 /\ tree.last.op = "trim" /\ tree.last.out.some
  /\ Len(tree.last.children) = 2 /\ tree.last.offset = 0
  /\ tree.last.before # tree.hash
  /\ hash_grow(tree.hash, 0, 0, tree.last.children) = SomeHash(tree.last.before)
  /\ tree.hash \in TreeHashes

\* ------------------------------------------------------------------ C15

\* The witness passed prove's checks, so prove built l(X), r(X) and t(X).
PassedChecks == Proved /\ proved.status # "Err" /\ proved.err # "index"
\* The challenges: a non-zero y, and the powers z^1 .. z^q of a non-zero z.
NonZero == 1 .. (FieldOrder - 1)
ZPowers(z_1, q) == [i \in 1 .. q |-> FPow(z_1, i)]
\* l(X) and r(X) as prove builds them for the statement, the padded witness
\* and the blinding vectors it drew, under challenges y and z.
ProverLr(y, z_1) ==
  LET st == proved.st
      w == PadWitness(witness.val, st.n)
      cm == ProveCommitments(st.n, proved.seed, w)
  IN LrPolynomials(st, w, powers(y, st.n), powers(FInv(y), st.n),
                   ZPowers(z_1, MatLen(st.WL)), cm.sL, cm.sR)
\* What the verifier rebuilds for position n':
\* delta + <z, c> + <WV(z), v>, delta = <WR(z) * y_inv, WL(z)>.
Anchor(y, z_1) ==
  LET st == proved.st
      z == ZPowers(z_1, MatLen(st.WL))
      delta == inner_product(SvMul(mul_vec(st.WR, st.n, z), powers(FInv(y), st.n)),
                             mul_vec(st.WL, st.n, z))
  IN FSum(<<delta, inner_product(z, st.c),
            inner_product(mul_vec(st.WV, Len(st.V), z),
                          [j \in 1 .. Len(witness.val.v) |-> witness.val.v[j].value])>>)
\* The pairs of slots (of l, of r) meant to meet at position n'.
AnchorPairs(c) ==
  {<<c + 1, c + 1>>, <<2 * (c + 1), 0>>}
    \cup { <<i, (2 * (c + 1)) - i>> : i \in 1 .. c }
    \cup { <<(2 * (c + 1)) - i, i>> : i \in 1 .. c }

\* C15: for a witness that passed prove's checks and every non-zero y and z,
\* the coefficient of t = <l, r> at n' is delta + <z, c> + <WV(z), v>, and of
\* the slot pairs that sum to n' only the intended ones are both non-zero.
C15_SoundnessAnchor ==
  PassedChecks =>
     LET c == Len(proved.st.C)
         ni == 2 * (c + 1)
         zero == [e \in 1 .. proved.st.n |-> 0]
     IN \A y \in NonZero, z_1 \in NonZero :
          LET lr == ProverLr(y, z_1)
          IN /\ TPolynomial(lr.l, lr.r, ni + 2)[ni] = Anchor(y, z_1)
             /\ \A i \in 0 .. ni :
                  (<<i, ni - i>> \notin AnchorPairs(c))
                     => (lr.l[i] = zero \/ lr.r[ni - i] = zero)

\* prove built t for a statement with constraints over a vector and a scalar
\* commitment and two multiplications, and returned a proof.
C15_Witness ==
  /\ PassedChecks /\ proved.status = "Ok"
  /\ proved.st.n = 2 /\ MatLen(proved.st.WL) >= 1
  /\ Len(proved.st.C) = 1 /\ Len(proved.st.V) = 1
  /\ \E y \in NonZero, z_1 \in NonZero : Anchor(y, z_1) # 0


\* ---- C16

\* The last verify call completed the block of lines 625-645.
IdentityRun == Verified /\ verified.draws = 2
\* The challenges of that call, recomputed from the transcript it was given
\* and the proof it was shown.
IdentityChallenges ==
  LET st == verified.st
      yz == initial_transcript(st, verified.tr0, verified.proof.AI,
                               verified.proof.AO, verified.proof.S)
      tx == transcript_Ts(yz.tr, verified.proof.T_before_ni, verified.proof.T_after_ni)
  IN [z |-> yz.z, x |-> tx.x, xs |-> At(tx.x, 1),
      delta |-> inner_product(SvMul(mul_vec(st.WR, st.n, yz.z), yz.y_inv),
                              mul_vec(st.WL, st.n, yz.z))]
\* The power of x each T element is paired with: T_before_ni first, then
\* T_after_ni.
TExponents ==
  LET ni == 2 * (Len(verified.st.C) + 1)
  IN [i \in 1 .. Len(verified.proof.T_before_ni) |-> i - 1] \o
     [i \in 1 .. Len(verified.proof.T_after_ni) |-> ni + 1 + (i - 1)]
\* The left side of the polynomial identity: t_caret*g + tau_x*h.
IdentityLhs ==
  multiexp(<<<<verified.proof.t_caret, gen_g>>, <<verified.proof.tau_x, gen_h>>>>)
\* The pairs of its right side other than the one on g, under the challenges
\* ch: the V[j], then the T elements.
IdentityRhsPairs(ch) ==
  LET st == verified.st
      ni == 2 * (Len(st.C) + 1)
      WVz == mul_vec(st.WV, Len(st.V), ch.z)
      Ts == verified.proof.T_before_ni \o verified.proof.T_after_ni
      e == TExponents
  IN [j \in 1 .. Len(st.V) |-> <<FMul(FPow(ch.xs, ni), WVz[j]), st.V[j]>>] \o
     [k \in 1 .. Len(Ts) |-> <<FPow(ch.xs, e[k]), Ts[k]>>]
\* The right side: x^n'*(delta + <z,c>)*g and the pairs above.
IdentityRhs(ch, pairs) ==
  LET st == verified.st
      ni == 2 * (Len(st.C) + 1)
  IN multiexp(<<<<FMul(FPow(ch.xs, ni), FAdd(ch.delta, inner_product(ch.z, st.c))),
                  gen_g>>>> \o pairs)
\* The sides of the identity, the pairs of the right side and the point the
\* block added to the batch, for the last verify call.
IdentityOfRun ==
  LET ch == IdentityChallenges
      pairs == IdentityRhsPairs(ch)
      after == VerifyIdentityTerms(verified.st, verified.before, verified.proof,
                                   ch.z, ch.delta, ch.x, Draw(verified.seed, 0))
  IN [lhs |-> IdentityLhs, rhs |-> IdentityRhs(ch, pairs), pairs |-> pairs,
      after |-> after,
      contribution |-> PSub(BatchSum(after), BatchSum(verified.before))]

\* C16: in a verify call that reached the second weight, the block of lines
\* 625-645 touches only g, h and the additional list; what it appends is, in
\* order, -w*x^n'*WV(z)[j] with V[j], -w*x^i with T_before_ni[i] and
\* -w*x^(n'+1+i) with T_after_ni[i], and the call keeps these entries; no T
\* element is paired with the power n'; the point it adds to the batch is
\* w*(t_caret*g + tau_x*h) - w*(right side); for w # 0 that point is the
\* identity exactly when the two sides are equal; and they are equal for the
\* proof prove returned.
C16_IdentityAccumulation ==
  IdentityRun =>
    LET w == Draw(verified.seed, 0)
        before == verified.before
        run == IdentityOfRun
        after == run.after
        e == TExponents
        ni == 2 * (Len(verified.st.C) + 1)
    IN /\ after.g_bold = before.g_bold /\ after.h_bold = before.h_bold
       /\ after.h_sum = before.h_sum
       /\ after.additional =
            before.additional \o
            [k \in 1 .. Len(run.pairs) |->
               <<FMul(FNeg(w), run.pairs[k][1]), run.pairs[k][2]>>]
       /\ Len(verifier.additional) >= Len(after.additional)
       /\ SubSeq(verifier.additional, 1, Len(after.additional)) = after.additional
       /\ \A k \in 1 .. Len(e) : e[k] # ni
       /\ run.contribution = PSub(PMul(run.lhs, w), PMul(run.rhs, w))
       /\ w # 0 => ((run.contribution = identity) <=> (run.lhs = run.rhs))
       /\ HonestCall => run.lhs = run.rhs

\* A verify call with a non-zero weight, a statement with a scalar commitment
\* and a proof whose tau_x does not satisfy the identity.
C16_Witness ==
  /\ IdentityRun
  /\ Draw(verified.seed, 0) # 0
  /\ Len(verified.st.V) >= 1
  /\ IdentityOfRun.lhs # IdentityOfRun.rhs
  /\ IdentityOfRun.contribution # identity


\* ---- C17

\* Vector-commitment counts the index derivations are compared over.
MaxCount == 6
\* The writes of lines 450-482 to l(X), by name: the three traditional
\* coefficients, and for opening i (from 1) its g_values and its WCR term.
LWrites(c) ==
  {<<"ilr", 0>>, <<"io", 0>>, <<"is", 0>>}
    \cup { <<"g_values", i>> : i \in 1 .. c } \cup { <<"WCR", i>> : i \in 1 .. c }
\* The writes to r(X).
RWrites(c) ==
  {<<"jlr", 0>>, <<"jo", 0>>, <<"js", 0>>}
    \cup { <<"h_values", i>> : i \in 1 .. c } \cup { <<"WCL", i>> : i \in 1 .. c }
\* The slot each write goes to.
LSlot(c, wr) ==
  CASE wr[1] = "ilr" -> prove_ilr(c)
    [] wr[1] = "io" -> prove_io(c)
    [] wr[1] = "is" -> prove_is(c)
    [] wr[1] = "g_values" -> wr[2]
    [] wr[1] = "WCR" -> prove_ni(c) - wr[2]
RSlot(c, wr) ==
  CASE wr[1] = "jlr" -> prove_jlr(c)
    [] wr[1] = "jo" -> prove_jo(c)
    [] wr[1] = "js" -> prove_js(c)
    [] wr[1] = "h_values" -> wr[2]
    [] wr[1] = "WCL" -> prove_ni(c) - wr[2]
\* What each write puts in its slot, under challenges y and z_1, for the
\* statement and the padded witness of the state.
LContent(wr, y, z_1) ==
  LET st == proved.st
      w == PadWitness(witness.val, st.n)
      z == ZPowers(z_1, MatLen(st.WL))
      y_inv == powers(FInv(y), st.n)
  IN CASE wr[1] = "ilr" -> SvAdd(SvMul(mul_vec(st.WR, st.n, z), y_inv), w.aL)
       [] wr[1] = "io" -> w.aO
       [] wr[1] = "is" -> ProveCommitments(st.n, proved.seed, w).sL
       [] wr[1] = "g_values" -> w.c[wr[2]].g_values
       [] wr[1] = "WCR" -> SvMul(mul_vec(st.WCR[wr[2]], st.n, z), y_inv)
RContent(wr, y, z_1) ==
  LET st == proved.st
      w == PadWitness(witness.val, st.n)
      z == ZPowers(z_1, MatLen(st.WL))
      ys == powers(y, st.n)
  IN CASE wr[1] = "jlr" -> SvAdd(mul_vec(st.WL, st.n, z), SvMul(w.aR, ys))
       [] wr[1] = "jo" -> SvSub(mul_vec(st.WO, st.n, z), ys)
       [] wr[1] = "js" -> SvMul(ProveCommitments(st.n, proved.seed, w).sR, ys)
       [] wr[1] = "h_values" -> SvMul(w.c[wr[2]].h_values, ys)
       [] wr[1] = "WCL" -> mul_vec(st.WCL[wr[2]], st.n, z)
\* The writes to one polynomial go to pairwise distinct slots within 0..n'+1.
SlotsApart(c, writes, Slot(_, _)) ==
  /\ \A wr \in writes : Slot(c, wr) \in 0 .. ((2 * (c + 1)) + 1)
  /\ \A a \in writes, b \in writes : a # b => Slot(c, a) # Slot(c, b)

\* C17: for every count c the slots prove writes in l(X) are pairwise distinct
\* and within 0..n'+1, and likewise those it writes in r(X); and in the l(X)
\* and r(X) prove builds for a witness that passed its checks, every slot
\* written still holds what was written to it and every other slot is zero.
C17_SlotAssignment ==
  /\ \A c \in 0 .. MaxCount :
       /\ prove_ni(c) = 2 * (c + 1)
       /\ SlotsApart(c, LWrites(c), LSlot)
       /\ SlotsApart(c, RWrites(c), RSlot)
  /\ PassedChecks =>
       LET c == Len(proved.st.C)
           zero == [e \in 1 .. proved.st.n |-> 0]
       IN \A y \in NonZero, z_1 \in NonZero :
            LET lr == ProverLr(y, z_1)
            IN /\ DOMAIN lr.l = 0 .. ((2 * (c + 1)) + 1)
               /\ DOMAIN lr.r = 0 .. ((2 * (c + 1)) + 1)
               /\ \A wr \in LWrites(c) : lr.l[LSlot(c, wr)] = LContent(wr, y, z_1)
               /\ \A wr \in RWrites(c) : lr.r[RSlot(c, wr)] = RContent(wr, y, z_1)
               /\ \A k \in DOMAIN lr.l :
                    (\A wr \in LWrites(c) : LSlot(c, wr) # k) => lr.l[k] = zero
               /\ \A k \in DOMAIN lr.r :
                    (\A wr \in RWrites(c) : RSlot(c, wr) # k) => lr.r[k] = zero

\* prove built l(X) and r(X) for a statement with a vector commitment whose
\* opening has non-zero values on both axes, next to non-zero aL, aR and aO.
C17_Witness ==
  /\ PassedChecks /\ proved.status = "Ok"
  /\ Len(proved.st.C) = 1
  /\ \E e \in 1 .. Len(witness.val.c[1].g_values) : witness.val.c[1].g_values[e] # 0
  /\ \E e \in 1 .. Len(witness.val.c[1].h_values) : witness.val.c[1].h_values[e] # 0
  /\ \E e \in 1 .. Len(witness.val.aO) : witness.val.aO[e] # 0


\* ---- C18

\* The lengths of T_before_ni and T_after_ni prove emits for count c (lines
\* 485, 497-503) and the lengths verify requires (lines 608-616).
ProveTBefore(c) == prove_ni(c)
ProveTAfter(c) == prove_t_len(prove_is(c) + 1) - (prove_ni(c) + 1)
VerifyTBefore(c) == verify_ni(c)
VerifyTAfter(c) == ((2 * (1 + verify_ni(c) + 1)) - 1) - verify_ni(c) - 1
\* The positions of the powers-of-x vector prove reads: poly_eval over l and
\* r, tau_x over its polynomial, u at ilr, io, is and at each opening.
ProveXIndexes(c) ==
  (0 .. prove_is(c))
    \cup (0 .. (ProveTBefore(c) + ProveTAfter(c)))
    \cup {prove_ilr(c), prove_io(c), prove_is(c)} \cup (1 .. c)
\* The positions verify reads: n', one per T element, ilr, io, is, one per
\* commitment, jlr and n'-i.
VerifyXIndexes(c) ==
  {verify_ni(c), verify_ilr(c), verify_io(c), verify_is(c), verify_jlr(c)}
    \cup (0 .. (VerifyTBefore(c) - 1))
    \cup { verify_ni(c) + 1 + i : i \in 0 .. (VerifyTAfter(c) - 1) }
    \cup (1 .. c) \cup { verify_ni(c) - i : i \in 1 .. c }
\* The length of the powers-of-x vector transcript_Ts returns (line 281).
XLen(before, after) == before + 1 + after

\* C18: for every count c prove and verify derive the same n', ilr, io, is and
\* jlr, prove emits the T lengths verify requires, and every position of the
\* powers of x either side reads exists; the proof prove returned has those
\* lengths, and verify never rejects it with IncorrectTBeforeNiLength or
\* IncorrectTAfterNiLength.
C18_NoIndexDrift ==
  /\ \A c \in 0 .. MaxCount :
       /\ prove_ni(c) = 2 * (c + 1) /\ verify_ni(c) = prove_ni(c)
       /\ prove_ilr(c) = prove_ni(c) \div 2 /\ verify_ilr(c) = prove_ilr(c)
       /\ prove_io(c) = prove_ni(c) /\ verify_io(c) = prove_io(c)
       /\ prove_is(c) = prove_ni(c) + 1 /\ verify_is(c) = prove_is(c)
       /\ prove_jlr(c) = prove_ni(c) \div 2 /\ verify_jlr(c) = prove_jlr(c)
       /\ ProveTBefore(c) = VerifyTBefore(c)
       /\ ProveTAfter(c) = VerifyTAfter(c)
       /\ \A k \in ProveXIndexes(c) : k < XLen(ProveTBefore(c), ProveTAfter(c))
       /\ \A k \in VerifyXIndexes(c) : k < XLen(VerifyTBefore(c), VerifyTAfter(c))
  /\ (Proved /\ proved.status = "Ok") =>
       LET c == Len(proved.st.C)
           proof == proved.proof
           yz == initial_transcript(proved.st, NewTranscript, proof.AI, proof.AO, proof.S)
           tx == transcript_Ts(yz.tr, proof.T_before_ni, proof.T_after_ni)
       IN /\ Len(proof.T_before_ni) = VerifyTBefore(c)
          /\ Len(proof.T_after_ni) = VerifyTAfter(c)
          /\ tx.panic \/ \A k \in ProveXIndexes(c) \cup VerifyXIndexes(c) : k < Len(tx.x)
  /\ (Verified /\ HonestCall) =>
       verified.err \notin {"IncorrectTBeforeNiLength", "IncorrectTAfterNiLength"}

\* verify accepted the proof prove returned for a statement with a vector
\* commitment.
C18_Witness ==
  /\ Verified /\ HonestCall /\ verified.status = "Ok"
  /\ Len(verified.st.C) = 1
  /\ Len(verified.proof.T_before_ni) = 4 /\ Len(verified.proof.T_after_ni) = 6


\* ---- C19

\* The witness given to prove has aL, or an axis of an opening, longer than n.
TooLong(w, n) ==
  \/ Len(w.aL) > n
  \/ \E k \in 1 .. Len(w.c) : Len(w.c[k].g_values) > n \/ Len(w.c[k].h_values) > n
\* p is v brought to length n: the entries of v, then zeros.
PaddedFrom(p, v, n) ==
  /\ Len(p) = n
  /\ \A i \in 1 .. n : p[i] = (IF i <= Len(v) THEN v[i] ELSE 0)

\* C19: prove returns IncorrectAmountOfGenerators exactly for the witnesses
\* with aL or an axis of an opening longer than n; for every other witness
\* the witness the checks run on has aL, aR, aO and both axes of every opening
\* of length n, the original entries first and zeros after them, the masks and
\* the scalar openings untouched, and aO[i] = aL[i]*aR[i] at every index; and
\* the AI and AO of a returned proof commit to the original entries alone.
C19_Padding ==
  Proved =>
    LET n == proved.st.n
        w == witness.val
        p == PadWitness(w, n)
    IN /\ TooLong(w, n) <=>
            (proved.status = "Err" /\ proved.err = "IncorrectAmountOfGenerators")
       /\ ~TooLong(w, n) =>
            /\ PaddedFrom(p.aL, w.aL, n) /\ PaddedFrom(p.aR, w.aR, n)
            /\ PaddedFrom(p.aO, w.aO, n)
            /\ Len(p.c) = Len(w.c) /\ p.v = w.v
            /\ \A k \in 1 .. Len(w.c) :
                 /\ PaddedFrom(p.c[k].g_values, w.c[k].g_values, n)
                 /\ PaddedFrom(p.c[k].h_values, w.c[k].h_values, n)
                 /\ p.c[k].mask = w.c[k].mask
            /\ \A i \in 1 .. n : p.aO[i] = FMul(p.aL[i], p.aR[i])
       /\ proved.status = "Ok" =>
            /\ proved.proof.AI =
                 multiexp([i \in 1 .. Len(w.aL) |-> <<w.aL[i], g_bold(i - 1)>>] \o
                          [i \in 1 .. Len(w.aR) |-> <<w.aR[i], h_bold(i - 1)>>] \o
                          <<<<Draw(proved.seed, 0), gen_h>>>>)
            /\ proved.proof.AO =
                 multiexp([i \in 1 .. Len(w.aO) |-> <<w.aO[i], g_bold(i - 1)>>] \o
                          <<<<Draw(proved.seed, 1), gen_h>>>>)

\* prove returned a proof for a witness whose aL and whose opening were
\* shorter than n.
C19_Witness ==
  /\ Proved /\ proved.status = "Ok"
  /\ Len(witness.val.aL) < proved.st.n
  /\ Len(witness.val.c) = 1
  /\ Len(witness.val.c[1].h_values) < proved.st.n


\* ---- C20

\* The slot of h_sum the search for log2(n) selects in a verify call that
\* reached it: the slot k with 2^k = n exists in the BatchVerifier, and it is
\* the only one the call amended.
SearchSelectsSlot ==
  (Verified /\ verified.draws = 2) =>
     \E slot \in DOMAIN verified.before.h_sum :
        /\ Pow2(slot - 1) = verified.st.n
        /\ verifier.h_sum =
             [verified.before.h_sum EXCEPT ![slot] = FSub(@, Draw(verified.seed, 1))]

ExpectedState(op) ==
  CASE op = "preprocess" -> "Fresh"
    [] op = "sign" -> "Preprocessed"
    [] op = "complete" -> "Signed"

\* C21: a call on the TransactionMachine returns Ok only when made in the
\* state it requires (preprocess in Fresh, sign in Preprocessed, complete in
\* Signed); made in any other state it returns
\* InvalidSignTransition(required, actual) and leaves every field of the
\* machine as it was; and complete returns a transaction only after a
\* preprocess succeeded and a sign succeeded after it.
C21_CallOrder ==
  machine.last.op # "none" =>
    LET l == machine.last
        expected == ExpectedState(l.op)
        actual == state(l.before)
    IN /\ l.status = "Ok" => actual = expected
       /\ actual # expected =>
            /\ l.status = "Err"
            /\ l.err = InvalidSignTransition(expected, actual)
            /\ machine.m = l.before
       /\ (l.op = "complete" /\ l.status = "Ok") => (machine.pre /\ machine.signed)

\* complete returned the transaction of a machine with two inputs or more,
\* the last of as many calls as the machine is given.
C21_Witness ==
  /\ machine.last.op = "complete" /\ machine.last.status = "Ok"
  /\ Len(machine.m.clsags) >= 2
  /\ machine.ops = MaxCalls
  /\ machine.pre /\ machine.signed


\* ---- C22

\* sign ran its loop over the inputs to the end: every cell was filled.
CellsFilled == machine.last.op = "sign" /\ machine.last.status = "Ok"
\* The Details built for input c in the last sign call.
OwnDetails(c) ==
  Details(machine.m.signable.inputs[c], machine.m.decoys[c], machine.last.val.masks[c])

\* C22: after sign filled the input cells, the cell CLSAG machine c was
\* constructed with holds the Details of input c, for every c, and so does
\* what the machine read from it; and no two inputs share a cell.
C22_OwnDetails ==
  CellsFilled =>
    LET m == machine.m
    IN /\ \A c \in 1 .. Len(m.clsags) :
            /\ m.clsags[c].cell = m.inputs[c]
            /\ m.heap[m.clsags[c].cell] = SomeValue(OwnDetails(c))
            /\ m.clsags[c].seen = SomeValue(OwnDetails(c))
       /\ \A c \in 1 .. Len(m.inputs), d \in 1 .. Len(m.inputs) :
            c # d => m.inputs[c] # m.inputs[d]

\* The same for transactions with one input alone.
C22_OwnDetailsOfOne == Len(machine.m.clsags) = 1 => C22_OwnDetails


\* ---- C23

\* The last call was a sign whose loop over the inputs ran to the end: a mask
\* was computed for every input.
MasksAssigned ==
  /\ machine.last.op = "sign"
  /\ Len(machine.last.val.masks) = Len(machine.m.clsags)

\* C23: when sign has computed a mask for every input, the masks sum in the
\* scalar field to output_masks; every mask but the last is the scalar drawn
\* for its input from the generator seeded from the transcript, and the last
\* is output_masks less the sum of the others.
C23_MasksSum ==
  MasksAssigned =>
    LET masks == machine.last.val.masks
        len == Len(masks)
        seed == MaskSeed(machine.m.transcript)
    IN /\ machine.m.output_masks.some
       /\ FSum(masks) = machine.m.output_masks.val
       /\ \A c \in 1 .. (len - 1) : masks[c] = Draw(seed, c - 1)
       /\ masks[len] = FSub(machine.m.output_masks.val, FSum(SubSeq(masks, 1, len - 1)))

\* sign computed the masks of three inputs, none of them zero, for a non-zero
\* output_masks.
C23_Witness ==
  /\ MasksAssigned /\ machine.last.status = "Ok"
  /\ Len(machine.last.val.masks) = 3
  /\ \A c \in 1 .. 3 : machine.last.val.masks[c] # 0
  /\ machine.m.output_masks.val # 0
====
